---- MODULE Spec2Model ----
(***************************************************************************)
(* A model of generate_report (src/src/report.rs): the enrichment of the   *)
(* violation records, the global department ranking, the DepartmentTable   *)
(* (one block per apartment, the grade-2 department "A" special case and   *)
(* its deferred merge) and the ManagerTable, as the sequence of worksheet  *)
(* instructions the function emits.                                        *)
(*                                                                         *)
(* Strings: the source's CJK literals are written in ASCII here            *)
(* ("unknown" for the lookup-miss label, "/" is the source's own filler,   *)
(* "G1"/"G2"/"G3" for the grade names, "dorm" for the dorm suffix, ...).   *)
(* Cell formats are left out: no claim is about styling.                   *)
(***************************************************************************)
EXTENDS Integers, Sequences, FiniteSets, TLC

VARIABLES
    records,              \* Vec<ReportDataRecord> read from the input file
    nianji_map,           \* (grade, class) -> (dept, teacher)
    sushe_map,            \* (apartment, floor) -> manager
    all_managers,         \* Vec<(apartment, floor, manager)>
    jibu_map,             \* (grade, dept) -> (leader, apartment)
    processed_data,       \* Vec<ProcessedRecord>
    pc,                   \* position in generate_report
    row,                  \* the output row cursor
    apartments,           \* Vec<u8>, descending; the blocks of table 1
    apt_idx,              \* index of the next apartment of the table-1 loop
    all_dept_groups,      \* (grade, dept) -> records, across apartments
    global_dept_rank_map, \* (grade, dept) -> rank
    apt2a_has_records,    \* key set of the HashMap<u8, bool>
    apt2a_start_row,      \* Option<u32>: <<>> is None, <<r>> is Some(r)
    apt2a_end_row,        \* Option<u32>
    mgr_by_apt,           \* apartment -> set of manager names
    sorted_apts,          \* Vec<u8>, ascending; the blocks of table 2
    mgr_idx,              \* index of the next apartment of the table-2 loop
    sheet,                \* the worksheet instructions emitted so far
    layout,               \* the groups rendered so far (one entry per group)
    saved,                \* TRUE once workbook.save has run
    run,                  \* 1 in the first run, 2 in the repeated run
    first_sheet           \* the instructions of the first run, once it is over

vars == <<records, nianji_map, sushe_map, all_managers, jibu_map, processed_data,
          pc, row, apartments, apt_idx, all_dept_groups, global_dept_rank_map,
          apt2a_has_records, apt2a_start_row, apt2a_end_row, mgr_by_apt,
          sorted_apts, mgr_idx, sheet, layout, saved, run, first_sheet>>

inputs == <<records, nianji_map, sushe_map, all_managers, jibu_map>>

(***************************************************************************)
(* Bounds and input universes                                              *)
(***************************************************************************)
MaxRecs == 2
MaxWideRecs == 1

Apartments == {1, 2}
\* (grade, class) of the rows of the input file: a class of department A
\* in grade 1 and in grade 2, a class the roster lists without department,
\* and a class the roster does not list.
GradeClasses == {<<1, 1>>, <<2, 1>>, <<1, 17>>, <<2, 18>>}
Dorms == {101, 201}
Reasons == {"bed"}

\* The lookup-miss label and the empty-cell filler of the source.
Unknown == "unknown"
Filler == "/"

\* The designated dual-apartment key: grade 2, department "A".
Key2A == <<2, "A">>

(***************************************************************************)
(* Generic helpers                                                         *)
(***************************************************************************)
Range(s) == {s[i] : i \in 1..Len(s)}

\* All orders in which an unordered container (HashMap / HashSet) holding
\* the elements of S may be iterated.
RECURSIVE IterationOrders(_)
IterationOrders(S) ==
    IF S = {} THEN {<<>>}
    ELSE UNION {{<<x>> \o s : s \in IterationOrders(S \ {x})} : x \in S}

\* Rust's sort_by / sort_by_key / sort: a stable sort.
StableSort(s, Less(_, _)) ==
    LET n == Len(s)
        pos(j) == 1 + Cardinality({k \in 1..n :
                        Less(s[k], s[j]) \/ (~Less(s[j], s[k]) /\ k < j)})
    IN [i \in 1..n |-> s[CHOOSE j \in 1..n : pos(j) = i]]

RECURSIVE SumDeduction(_)
SumDeduction(rs) ==
    IF rs = <<>> THEN 0 ELSE Head(rs).deduction + SumDeduction(Tail(rs))

\* i32 / u16 / u8 to_string and "{}" formatting: decimal digits.
Digit == <<"0", "1", "2", "3", "4", "5", "6", "7", "8", "9">>

RECURSIVE NatToString(_)
NatToString(n) ==
    IF n < 10 THEN Digit[n + 1]
    ELSE NatToString(n \div 10) \o Digit[(n % 10) + 1]

to_string(n) == IF n < 0 THEN "-" \o NatToString(-n) ELSE NatToString(n)

\* String::cmp on the department codes of the model ("A" < "B").
DeptOrd(d) == CASE d = "" -> 0 [] d = "A" -> 1 [] d = "B" -> 2 [] OTHER -> 3

(***************************************************************************)
(* The input files                                                         *)
(***************************************************************************)
ReportDataRecord(g, c, a, d, why) ==
    [grade |-> g, class |-> c, apartment |-> a, dorm |-> d, reason |-> why]

GradeRecord(g, d, c, t) == [grade |-> g, dept |-> d, class |-> c, teacher |-> t]

ApartmentRecord(a, f, m) == [apartment |-> a, floor |-> f, manager |-> m]

DepartmentRecord(g, d, l, a) == [grade |-> g, dept |-> d, leader |-> l, apartment |-> a]

\* HashMap::insert over the rows of a file: the last row of a key wins.
LastWith(s, P(_)) == s[CHOOSE i \in 1..Len(s) : P(s[i]) /\ \A j \in (i + 1)..Len(s) : ~P(s[j])]

load_grade_data(rows) ==
    [k \in {<<r.grade, r.class>> : r \in Range(rows)} |->
        LET r == LastWith(rows, LAMBDA x : <<x.grade, x.class>> = k)
        IN [dept |-> r.dept, teacher |-> r.teacher]]

load_apt_data(rows) ==
    [k \in {<<r.apartment, r.floor>> : r \in Range(rows)} |->
        LastWith(rows, LAMBDA x : <<x.apartment, x.floor>> = k).manager]

get_all_managers(rows) ==
    [i \in 1..Len(rows) |-> <<rows[i].apartment, rows[i].floor, rows[i].manager>>]

load_dept_data(rows) ==
    [k \in {<<r.grade, r.dept>> : r \in Range(rows)} |->
        LET r == LastWith(rows, LAMBDA x : <<x.grade, x.dept>> = k)
        IN [leader |-> r.leader, apartment |-> r.apartment]]

\* assets/nianji.csv: the classroom roster.  A row without a department
\* (class 17) deserializes to dept = None, stored as the empty string.
NianjiRows ==
    << GradeRecord(1, "A", 1, "T11"),
       GradeRecord(2, "A", 1, "T21"),
       GradeRecord(1, "", 17, "T17") >>

\* assets/sushe.csv: the manager rosters the model is run on.
SusheFiles ==
    { << ApartmentRecord(1, 1, "M1"), ApartmentRecord(1, 2, "M2"),
         ApartmentRecord(2, 1, "M3") >>,
      << ApartmentRecord(1, 2, "M1"), ApartmentRecord(1, 1, "M2"),
         ApartmentRecord(1, 1, "M4"), ApartmentRecord(2, 1, "M3"),
         ApartmentRecord(2, 2, "M3") >> }

\* assets/jibu.csv: the department rosters the model is run on.
JibuFiles ==
    { << DepartmentRecord(1, "A", "L1A", 1), DepartmentRecord(1, "B", "L1B", 1),
         DepartmentRecord(2, "A", "L2A", 2), DepartmentRecord(2, "B", "L2B", 1) >>,
      << >> }

\* The rows the input file may hold.
RecordPool ==
    {ReportDataRecord(gc[1], gc[2], a, d, why) :
        gc \in GradeClasses, a \in Apartments, d \in Dorms, why \in Reasons}

RecordLists == UNION {[1..n -> RecordPool] : n \in 0..MaxRecs}

\* Inputs over the whole width of the field types (model.rs: dorm is a u16,
\* floor a u8): dorm numbers whose quotient by 100 is 1, 255, 256, 257, 655.
WideDorms == {101, 25500, 25600, 25701, 65535}

WideSusheFiles ==
    { << ApartmentRecord(1, 1, "M1"), ApartmentRecord(1, 2, "M2"),
         ApartmentRecord(2, 1, "M3") >>,
      << ApartmentRecord(1, 1, "M1"), ApartmentRecord(1, 120, "M2"),
         ApartmentRecord(2, 1, "M3"), ApartmentRecord(2, 99, "M5") >> }

WideRecordPool ==
    {ReportDataRecord(gc[1], gc[2], a, d, why) :
        gc \in GradeClasses, a \in Apartments, d \in WideDorms, why \in Reasons}

WideRecordLists == UNION {[1..n -> WideRecordPool] : n \in 0..MaxWideRecs}

(***************************************************************************)
(* Worksheet instructions                                                  *)
(***************************************************************************)
Instr(op, r0, c0, r1, c1, text, num) ==
    [op |-> op, row |-> r0, col |-> c0, last_row |-> r1, last_col |-> c1,
     text |-> text, num |-> num]

write_string(r, c, text) == Instr("write_string", r, c, r, c, text, 0)
write_number(r, c, num) == Instr("write_number", r, c, r, c, "", num)
merge_range(r0, c0, r1, c1, text) == Instr("merge_range", r0, c0, r1, c1, text, 0)
set_row_height(r, h) == Instr("set_row_height", r, 0, r, 0, "", h)
set_column_width(c, w) == Instr("set_column_width", 0, c, 0, c, "", w)
insert_image(r, c) == Instr("insert_image", r, c, r, c, "logo", 0)

(***************************************************************************)
(* Enrichment (report.rs 38-61)                                            *)
(***************************************************************************)
\* (r.dorm / 100) as u8
Floor(dorm) == (dorm \div 100) % 256

\* A deduction weighted by the floor of the dorm instead of the fixed -1.
DeductionByFloor(r) == 0 - (r.dorm \div 100)

\* report.rs 59: the deduction of every entry
Deduction(r) == -1

Enriched(r) ==
    LET floor == Floor(r.dorm)
        manager == IF <<r.apartment, floor>> \in DOMAIN sushe_map
                   THEN sushe_map[<<r.apartment, floor>>] ELSE Unknown
        hit == <<r.grade, r.class>> \in DOMAIN nianji_map
    IN [apartment |-> r.apartment, grade |-> r.grade, class |-> r.class,
        dept |-> IF hit THEN nianji_map[<<r.grade, r.class>>].dept ELSE "",
        teacher |-> IF hit THEN nianji_map[<<r.grade, r.class>>].teacher ELSE Unknown,
        manager |-> manager, dorm |-> r.dorm, reason |-> r.reason,
        deduction |-> Deduction(r)]

(***************************************************************************)
(* Dense ranking (report.rs 169-183, 260-274, 601-614: the same loop)      *)
(***************************************************************************)
\* The totals sorted ascending: the most violations first.
SortByTotalAsc(totals) == StableSort(totals, LAMBDA a, b : a[2] < b[2])

\* totals: a Vec of <<key, total>>.  sort_by(|a, b| b.1.cmp(&a.1)).
SortByTotalDesc(totals) == StableSort(totals, LAMBDA a, b : a[2] > b[2])

\* Skip ranking instead: the rank advances by the size of the tied group.
CurRankSkip(sorted, i) ==
    CHOOSE j \in 1..i : sorted[j][2] = sorted[i][2]
                        /\ \A k \in 1..(j - 1) : sorted[k][2] # sorted[i][2]

\* cur_rank after the first i entries of the sorted Vec.
RECURSIVE CurRank(_, _)
CurRank(sorted, i) ==
    IF i = 1 THEN 1
    ELSE IF sorted[i][2] # sorted[i - 1][2]
         THEN CurRank(sorted, i - 1) + 1
         ELSE CurRank(sorted, i - 1)

\* The rank map built from a sorted Vec (empty Vec: empty map).
RankMap(sorted) ==
    [k \in {sorted[i][1] : i \in 1..Len(sorted)} |->
        CurRank(sorted, CHOOSE i \in 1..Len(sorted) : sorted[i][1] = k)]

(***************************************************************************)
(* Initial state: the files hold their rows, nothing is loaded yet; the    *)
(* input variables stand for what the five loads of report.rs 32-36 return *)
(***************************************************************************)
\* generate_report is entered for the first time.
Entry ==
    /\ processed_data = <<>>
    /\ pc = "load"
    /\ row = 0
    /\ apartments = <<>>
    /\ apt_idx = 1
    /\ all_dept_groups = <<>>
    /\ global_dept_rank_map = <<>>
    /\ apt2a_has_records = {}
    /\ apt2a_start_row = <<>>
    /\ apt2a_end_row = <<>>
    /\ mgr_by_apt = <<>>
    /\ sorted_apts = <<>>
    /\ mgr_idx = 1
    /\ sheet = <<>>
    /\ layout = <<>>
    /\ saved = FALSE
    /\ run = 1
    /\ first_sheet = <<>>

Init ==
    /\ records \in RecordLists
    /\ nianji_map = load_grade_data(NianjiRows)
    /\ \E rows \in SusheFiles :
          /\ sushe_map = load_apt_data(rows)
          /\ all_managers = get_all_managers(rows)
    /\ \E rows \in JibuFiles : jibu_map = load_dept_data(rows)
    /\ Entry

\* The same run on inputs from the whole width of the record types: dorm
\* numbers up to u16::MAX in the input file, floors up to u8::MAX in the
\* manager roster.
InitWide ==
    /\ records \in WideRecordLists
    /\ nianji_map = load_grade_data(NianjiRows)
    /\ \E rows \in WideSusheFiles :
          /\ sushe_map = load_apt_data(rows)
          /\ all_managers = get_all_managers(rows)
    /\ \E rows \in JibuFiles : jibu_map = load_dept_data(rows)
    /\ Entry

\* The locals of generate_report before anything is computed.
Fresh ==
    /\ processed_data' = <<>>
    /\ row' = 0
    /\ apartments' = <<>>
    /\ apt_idx' = 1
    /\ all_dept_groups' = <<>>
    /\ global_dept_rank_map' = <<>>
    /\ apt2a_has_records' = {}
    /\ apt2a_start_row' = <<>>
    /\ apt2a_end_row' = <<>>
    /\ mgr_by_apt' = <<>>
    /\ sorted_apts' = <<>>
    /\ mgr_idx' = 1
    /\ sheet' = <<>>
    /\ layout' = <<>>

(***************************************************************************)
(* report.rs 32-36: the five loads succeed                                 *)
(***************************************************************************)
Load ==
    /\ pc = "load"
    /\ pc' = "enrich"
    /\ UNCHANGED <<inputs, processed_data, row, apartments, apt_idx, all_dept_groups,
                   global_dept_rank_map, apt2a_has_records, apt2a_start_row,
                   apt2a_end_row, mgr_by_apt, sorted_apts, mgr_idx, sheet, layout,
                   saved, run, first_sheet>>

(***************************************************************************)
(* Every load (report.rs 32-36), every worksheet call (100-715) and the    *)
(* save (717) ends in `?`: on an error generate_report returns Err at that *)
(* point.  The workbook lives in memory until workbook.save; the state of  *)
(* a failed run keeps the locals as they were at the failing call, sheet   *)
(* being the instructions the in-memory worksheet had taken by then.       *)
(***************************************************************************)
Fail ==
    /\ pc \in {"load", "header1", "dept", "header2", "mgr"}
    /\ pc' = "failed"
    /\ UNCHANGED <<inputs, processed_data, row, apartments, apt_idx, all_dept_groups,
                   global_dept_rank_map, apt2a_has_records, apt2a_start_row,
                   apt2a_end_row, mgr_by_apt, sorted_apts, mgr_idx, sheet, layout,
                   saved, run, first_sheet>>

(***************************************************************************)
(* report.rs 38-61: the enrichment loop                                    *)
(***************************************************************************)
\* An enrichment that drops the records whose classroom or manager lookup
\* misses instead of giving them the default values.
EnrichSkipMisses ==
    /\ pc = "enrich"
    /\ processed_data' =
          LET kept == SelectSeq(records,
                          LAMBDA r : /\ <<r.grade, r.class>> \in DOMAIN nianji_map
                                     /\ <<r.apartment, Floor(r.dorm)>> \in DOMAIN sushe_map)
          IN [i \in 1..Len(kept) |-> Enriched(kept[i])]
    /\ pc' = "header1"
    /\ UNCHANGED <<inputs, row, apartments, apt_idx, all_dept_groups,
                   global_dept_rank_map, apt2a_has_records, apt2a_start_row,
                   apt2a_end_row, mgr_by_apt, sorted_apts, mgr_idx, sheet, layout,
                   saved, run, first_sheet>>

Enrich ==
    /\ pc = "enrich"
    /\ processed_data' = [i \in 1..Len(records) |-> Enriched(records[i])]
    /\ pc' = "header1"
    /\ UNCHANGED <<inputs, row, apartments, apt_idx, all_dept_groups,
                   global_dept_rank_map, apt2a_has_records, apt2a_start_row,
                   apt2a_end_row, mgr_by_apt, sorted_apts, mgr_idx, sheet, layout,
                   saved, run, first_sheet>>

(***************************************************************************)
(* report.rs 100-142: the header of table 1, the row cursor, the apartments*)
(***************************************************************************)
\* The title block written from row r0 on (report.rs 101-118, 530-559);
\* reporter, date and time are free text and stand as fixed strings.
TitleBlock(r0) ==
    << merge_range(r0, 0, r0, 8, "title"),
       insert_image(r0, 3),
       merge_range(r0 + 1, 0, r0 + 1, 4, "reporter"),
       merge_range(r0 + 1, 5, r0 + 1, 7, "object"),
       write_string(r0 + 1, 8, "date"),
       write_string(r0 + 2, 0, "department"),
       merge_range(r0 + 2, 1, r0 + 2, 8, "office"),
       write_string(r0 + 3, 0, "item"),
       merge_range(r0 + 3, 1, r0 + 3, 8, "hygiene"),
       write_string(r0 + 4, 0, "time-label"),
       merge_range(r0 + 4, 1, r0 + 4, 8, "time"),
       write_string(r0 + 5, 0, "rules-label"),
       merge_range(r0 + 5, 1, r0 + 5, 8, "rules"),
       set_row_height(r0 + 5, 80) >>

headers1 ==
    <<"apartment", "dept", "teacher", "manager", "dorm", "reason", "deduction",
      "total", "rank">>

Header1Instrs ==
    TitleBlock(0) \o [i \in 1..Len(headers1) |-> write_string(6, i - 1, headers1[i])]

\* report.rs 136-142: the apartments of table 1, sorted descending.
ApartmentSet == {r.apartment : r \in Range(processed_data)}

SortedApartments(order) == StableSort(order, LAMBDA a, b : a > b)

Header1 ==
    /\ pc = "header1"
    /\ sheet' = sheet \o Header1Instrs
    /\ row' = 7
    /\ apartments' \in {SortedApartments(order) : order \in IterationOrders(ApartmentSet)}
    /\ apt_idx' = 1
    /\ pc' = "rank"
    /\ UNCHANGED <<inputs, processed_data, all_dept_groups, global_dept_rank_map,
                   apt2a_has_records, apt2a_start_row, apt2a_end_row, mgr_by_apt,
                   sorted_apts, mgr_idx, layout, saved, run, first_sheet>>

(***************************************************************************)
(* report.rs 144-201: global department ranking, the 2A flags              *)
(***************************************************************************)
DeptKey(r) == <<r.grade, r.dept>>

\* Only the roster keys are ranked: a department that occurs in the records
\* alone has no entry.
AllDeptGroupsRosterOnly ==
    [k \in DOMAIN jibu_map |->
        SelectSeq(processed_data, LAMBDA r : r.dept # "" /\ DeptKey(r) = k)]

\* report.rs 145-160
AllDeptGroups ==
    [k \in DOMAIN jibu_map \cup {DeptKey(r) : r \in {x \in Range(processed_data) : x.dept # ""}} |->
        SelectSeq(processed_data, LAMBDA r : r.dept # "" /\ DeptKey(r) = k)]

\* report.rs 163-167, for one iteration order of the HashMap
AllDeptTotals(groups, order) ==
    SortByTotalDesc([i \in 1..Len(order) |-> <<order[i], SumDeduction(groups[order[i]])>>])

\* report.rs 186-191
Apt2AHasRecords ==
    {r.apartment : r \in {x \in Range(processed_data) : x.grade = 2 /\ x.dept = "A"}}

\* report.rs 192-197
apt2a_in_both == 1 \in apt2a_has_records /\ 2 \in apt2a_has_records
apt2a_in_apt1_only == 1 \in apt2a_has_records /\ 2 \notin apt2a_has_records
apt2a_in_apt2_only == 2 \in apt2a_has_records /\ 1 \notin apt2a_has_records
apt2a_in_neither == apt2a_has_records = {}

GlobalRanking ==
    /\ pc = "rank"
    /\ all_dept_groups' = AllDeptGroups
    /\ global_dept_rank_map' \in
          {RankMap(AllDeptTotals(AllDeptGroups, order)) :
              order \in IterationOrders(DOMAIN AllDeptGroups)}
    /\ apt2a_has_records' = Apt2AHasRecords
    /\ apt2a_start_row' = <<>>
    /\ apt2a_end_row' = <<>>
    /\ pc' = "dept"
    /\ UNCHANGED <<inputs, processed_data, row, apartments, apt_idx, mgr_by_apt,
                   sorted_apts, mgr_idx, sheet, layout, saved, run, first_sheet>>

(***************************************************************************)
(* report.rs 203-502: one apartment block of the DepartmentTable           *)
(***************************************************************************)
RecordsOf(apt) == SelectSeq(processed_data, LAMBDA r : r.apartment = apt)

\* Every roster department, 2A included, seeded in its home apartment only.
SeededByHomeOnly(apt) == {k \in DOMAIN jibu_map : jibu_map[k].apartment = apt}

\* report.rs 211-230: the roster departments seeded into the block of apt
SeededDeptKeys(apt) ==
    {k \in DOMAIN jibu_map :
        IF k[1] = 2 /\ k[2] = "A"
        THEN \/ apt2a_in_both
             \/ apt2a_in_apt1_only /\ apt = 1
             \/ apt2a_in_apt2_only /\ apt = 2
             \/ apt2a_in_neither /\ apt = 1
        ELSE jibu_map[k].apartment = apt}

\* Only the seeded roster keys get a bucket: the records of a department
\* the roster does not seed here are dropped.
DeptGroupsSeededOnly(apt) ==
    [k \in SeededDeptKeys(apt) |->
        SelectSeq(RecordsOf(apt), LAMBDA r : r.dept # "" /\ DeptKey(r) = k)]

\* report.rs 207, 211-244: dept_groups of the block
DeptGroups(apt) ==
    [k \in SeededDeptKeys(apt) \cup
           {DeptKey(r) : r \in {x \in Range(RecordsOf(apt)) : x.dept # ""}} |->
        SelectSeq(RecordsOf(apt), LAMBDA r : r.dept # "" /\ DeptKey(r) = k)]

\* The classroom buckets filled from the records of every apartment.
ClassGroupsAnyApt(apt) ==
    [c \in {r.class : r \in {x \in Range(processed_data) : x.dept = ""}} |->
        SelectSeq(processed_data, LAMBDA r : r.dept = "" /\ r.class = c)]

\* report.rs 208, 233-236: class_groups of the block
ClassGroups(apt) ==
    [c \in {r.class : r \in {x \in Range(RecordsOf(apt)) : x.dept = ""}} |->
        SelectSeq(RecordsOf(apt), LAMBDA r : r.dept = "" /\ r.class = c)]

\* The cross-apartment total of the key instead of the apartment-local one.
DeptTotalGlobal(groups, k) == SumDeduction(all_dept_groups[k])

\* report.rs 247-251 with 317-321: the Vec holds one total per key and is
\* only searched by key.
DeptTotal(groups, k) == SumDeduction(groups[k])

\* The rank of the key among the groups of the block instead of the global one.
DeptRankLocal(groups, k) ==
    1 + Cardinality({SumDeduction(groups[j]) : j \in DOMAIN groups}
                    \cap (SumDeduction(groups[k]) + 1)..0)

\* report.rs 322
DeptRank(groups, k) == global_dept_rank_map[k]

\* report.rs 254-258, for one iteration order of the HashMap
ClassTotals(groups, order) ==
    SortByTotalDesc([i \in 1..Len(order) |-> <<order[i], SumDeduction(groups[order[i]])>>])

\* The keys in the order the HashMap iteration gave them.
UnsortedDeptKeys(order) == order

\* report.rs 277-284
SortedDeptKeys(order) ==
    StableSort(order, LAMBDA a, b :
        IF a[1] # b[1] THEN a[1] < b[1] ELSE DeptOrd(a[2]) < DeptOrd(b[2]))

\* report.rs 287-288
SortedClassKeys(order) == StableSort(order, LAMBDA a, b : a < b)

\* report.rs 296-306
GradeName(grade) ==
    CASE grade = 1 -> "G1" [] grade = 2 -> "G2" [] grade = 3 -> "G3" [] OTHER -> ""

Leader(k) == IF k \in DOMAIN jibu_map THEN jibu_map[k].leader ELSE ""

DeptDisplay(k) == GradeName(k[1]) \o k[2] \o "-dept(" \o Leader(k) \o ")"

\* The records in the order of the input file.
InputOrder(rs) == rs

\* report.rs 336-337, 436-437, 648-649
SortByDorm(rs) == StableSort(rs, LAMBDA a, b : a.dorm < b.dorm)

\* report.rs 340-363, 441-464: the five cells of each dorm row
DormRowInstrs(r, current_row) ==
    << write_string(current_row, 2, r.teacher),
       write_string(current_row, 3, r.manager),
       write_string(current_row, 4, to_string(r.dorm) \o "dorm"),
       write_string(current_row, 5, r.reason),
       write_number(current_row, 6, r.deduction) >>

RECURSIVE DormRows(_, _, _)
DormRows(sorted_rs, grp_start, idx) ==
    IF idx > Len(sorted_rs) THEN <<>>
    ELSE DormRowInstrs(sorted_rs[idx], grp_start + idx - 1)
            \o DormRows(sorted_rs, grp_start, idx + 1)

\* report.rs 326-333: the placeholder row of a department without records
DeptPlaceholder(r, dept_display, rank) ==
    << write_string(r, 1, dept_display),
       write_string(r, 2, Filler), write_string(r, 3, Filler),
       write_string(r, 4, Filler), write_string(r, 5, Filler),
       write_string(r, 6, Filler), write_string(r, 7, Filler),
       write_number(r, 8, rank) >>

\* Label, total and rank written at the first row only, never merged.
LabelInstrsNoMerge(grp_start, n, display, total, rank) ==
    << write_string(grp_start, 1, display),
       write_number(grp_start, 7, total),
       write_number(grp_start, 8, rank) >>

\* report.rs 375-414, 469-491: label, total and rank of a group of n rows
LabelInstrs(grp_start, n, display, total, rank) ==
    IF n > 1
    THEN << merge_range(grp_start, 1, grp_start + n - 1, 1, display),
            merge_range(grp_start, 7, grp_start + n - 1, 7, to_string(total)),
            merge_range(grp_start, 8, grp_start + n - 1, 8, to_string(rank)) >>
    ELSE << write_string(grp_start, 1, display),
            write_number(grp_start, 7, total),
            write_number(grp_start, 8, rank) >>

\* One rendered group, as recorded in layout.
\* table/apt/kind/key name the group, first..last are its rows, recs its
\* records in row order, total and rank the values of the code's locals of
\* those names, labelled whether its label, total and rank cells were
\* emitted with its rows.
Group(table, apt, kind, key, first, n, placeholder, labelled, recs, total, rank) ==
    [table |-> table, apt |-> apt, kind |-> kind, key |-> key, first |-> first,
     last |-> first + n - 1, placeholder |-> placeholder, labelled |-> labelled,
     recs |-> recs, total |-> total, rank |-> rank]

\* The state threaded through the rendering loops.
Cursor(sh, lay, r, start, end) ==
    [sheet |-> sh, layout |-> lay, row |-> r, start |-> start, end |-> end]

\* No group is deferred: 2A is labelled inside each block as well.
NeverDeferred(k) == FALSE

\* report.rs 312-315, 368, 373: the 2A group's labels are deferred
Deferred(k) == k[1] = 2 /\ k[2] = "A" /\ apt2a_in_both

\* report.rs 294-416: the body of the department loop for key k
RenderDeptGroup(apt, groups, k, cur) ==
    LET rs == groups[k]
        grp_start == cur.row
        start == IF Deferred(k) /\ cur.start = <<>> THEN <<cur.row>> ELSE cur.start
        total == DeptTotal(groups, k)
        rank == DeptRank(groups, k)
        sorted_rs == SortByDorm(rs)
        n == Len(sorted_rs)
    IN IF rs = <<>>
       THEN Cursor(cur.sheet \o DeptPlaceholder(cur.row, DeptDisplay(k), rank),
                   Append(cur.layout,
                          Group(1, apt, "dept", k, grp_start, 1, TRUE, TRUE, <<>>,
                                total, rank)),
                   cur.row + 1, start, cur.end)
       ELSE Cursor(cur.sheet \o DormRows(sorted_rs, grp_start, 1)
                       \o (IF Deferred(k) THEN <<>>
                           ELSE LabelInstrs(grp_start, n, DeptDisplay(k), total, rank)),
                   Append(cur.layout,
                          Group(1, apt, "dept", k, grp_start, n, FALSE, ~Deferred(k),
                                sorted_rs, total, rank)),
                   cur.row + n, start,
                   IF Deferred(k) THEN <<cur.row + n - 1>> ELSE cur.end)

RECURSIVE RenderDeptGroups(_, _, _, _, _)
RenderDeptGroups(apt, groups, sorted_dept_keys, i, cur) ==
    IF i > Len(sorted_dept_keys) THEN cur
    ELSE RenderDeptGroups(apt, groups, sorted_dept_keys, i + 1,
                          RenderDeptGroup(apt, groups, sorted_dept_keys[i], cur))

\* report.rs 422-492: the body of the classroom loop for class_num
RenderClassGroup(apt, groups, class_rank_map, class_num, cur) ==
    LET rs == groups[class_num]
        total == SumDeduction(rs)
        rank == class_rank_map[class_num]
        sorted_rs == SortByDorm(rs)
        n == Len(sorted_rs)
    IN IF rs = <<>> THEN cur
       ELSE Cursor(cur.sheet \o DormRows(sorted_rs, cur.row, 1)
                       \o LabelInstrs(cur.row, n, to_string(class_num) \o "class",
                                      total, rank),
                   Append(cur.layout,
                          Group(1, apt, "class", <<class_num, "">>, cur.row, n, FALSE,
                                TRUE, sorted_rs, total, rank)),
                   cur.row + n, cur.start, cur.end)

RECURSIVE RenderClassGroups(_, _, _, _, _, _)
RenderClassGroups(apt, groups, class_rank_map, sorted_class_keys, i, cur) ==
    IF i > Len(sorted_class_keys) THEN cur
    ELSE RenderClassGroups(apt, groups, class_rank_map, sorted_class_keys, i + 1,
             RenderClassGroup(apt, groups, class_rank_map, sorted_class_keys[i], cur))

\* report.rs 204: the apartment's label
AptName(apt) == IF apt = 1 THEN "apt-one" ELSE "apt-two"

\* report.rs 495-501, 698-704: the apartment label over the rows of the block
AptLabelInstrs(apt_start, r, apt) ==
    IF r > apt_start
    THEN IF r - apt_start > 1
         THEN << merge_range(apt_start, 0, r - 1, 0, AptName(apt)) >>
         ELSE << write_string(apt_start, 0, AptName(apt)) >>
    ELSE <<>>

\* The whole block of apt, for the sorted keys and the classroom rank map
\* that one iteration order of each HashMap gives.
DeptBlockResult(apt, sorted_dept_keys, sorted_class_keys, class_rank_map, cur) ==
    LET apt_start == cur.row
        after_depts == RenderDeptGroups(apt, DeptGroups(apt), sorted_dept_keys, 1, cur)
        after_classes == RenderClassGroups(apt, ClassGroups(apt), class_rank_map,
                                           sorted_class_keys, 1, after_depts)
    IN [after_classes EXCEPT
           !.sheet = @ \o AptLabelInstrs(apt_start, after_classes.row, apt)]

DeptBlock ==
    /\ pc = "dept"
    /\ apt_idx <= Len(apartments)
    /\ LET apt == apartments[apt_idx]
       IN \E sorted_dept_keys \in
                {SortedDeptKeys(order) : order \in IterationOrders(DOMAIN DeptGroups(apt))},
             sorted_class_keys \in
                {SortedClassKeys(order) : order \in IterationOrders(DOMAIN ClassGroups(apt))},
             class_rank_map \in
                {RankMap(ClassTotals(ClassGroups(apt), order)) :
                    order \in IterationOrders(DOMAIN ClassGroups(apt))} :
             LET res == DeptBlockResult(apt, sorted_dept_keys, sorted_class_keys,
                            class_rank_map,
                            Cursor(sheet, layout, row, apt2a_start_row, apt2a_end_row))
             IN /\ sheet' = res.sheet
                /\ layout' = res.layout
                /\ row' = res.row
                /\ apt2a_start_row' = res.start
                /\ apt2a_end_row' = res.end
    /\ apt_idx' = apt_idx + 1
    /\ UNCHANGED <<inputs, processed_data, pc, apartments, all_dept_groups,
                   global_dept_rank_map, apt2a_has_records, mgr_by_apt, sorted_apts,
                   mgr_idx, saved, run, first_sheet>>

(***************************************************************************)
(* report.rs 504-525: the deferred merge of 2A across the two blocks       *)
(***************************************************************************)
DeferredMergeInstrs ==
    IF apt2a_in_both /\ apt2a_start_row # <<>> /\ apt2a_end_row # <<>>
    THEN LET start == apt2a_start_row[1]
             end == apt2a_end_row[1]
             total == IF Key2A \in DOMAIN all_dept_groups
                      THEN SumDeduction(all_dept_groups[Key2A]) ELSE 0
             rank == global_dept_rank_map[Key2A]
         IN << merge_range(start, 1, end, 1, "G2A-dept(" \o Leader(Key2A) \o ")"),
               merge_range(start, 7, end, 7, to_string(total)),
               merge_range(start, 8, end, 8, to_string(rank)) >>
    ELSE <<>>

DeferredMerge ==
    /\ pc = "dept"
    /\ apt_idx > Len(apartments)
    /\ sheet' = sheet \o DeferredMergeInstrs
    /\ pc' = "header2"
    /\ UNCHANGED <<inputs, processed_data, row, apartments, apt_idx, all_dept_groups,
                   global_dept_rank_map, apt2a_has_records, apt2a_start_row,
                   apt2a_end_row, mgr_by_apt, sorted_apts, mgr_idx, layout, saved, run,
                   first_sheet>>

(***************************************************************************)
(* report.rs 527-582: the header of table 2, the managers per apartment    *)
(***************************************************************************)
Header2Instrs(r0) ==
    TitleBlock(r0) \o
    << write_string(r0 + 6, 0, "apartment"),
       write_string(r0 + 6, 1, "manager"),
       write_string(r0 + 6, 2, "dorm"),
       merge_range(r0 + 6, 3, r0 + 6, 4, "reason"),
       write_string(r0 + 6, 5, "deduction"),
       merge_range(r0 + 6, 6, r0 + 6, 7, "total"),
       write_string(r0 + 6, 8, "rank") >>

\* The managers of the records only: a roster manager without records is
\* not listed.
MgrByAptRecordsOnly ==
    [apt \in ApartmentSet |-> {r.manager : r \in Range(RecordsOf(apt))}]

\* report.rs 570-579
MgrByApt ==
    [apt \in {all_managers[i][1] : i \in 1..Len(all_managers)} \cup ApartmentSet |->
        {all_managers[i][3] : i \in {j \in 1..Len(all_managers) : all_managers[j][1] = apt}}
        \cup {r.manager : r \in Range(RecordsOf(apt))}]

\* The apartments of table 2 in the descending order of table 1.
SortedAptsDescending(order) == StableSort(order, LAMBDA a, b : a > b)

\* report.rs 581-582
SortedApts(order) == StableSort(order, LAMBDA a, b : a < b)

Header2 ==
    /\ pc = "header2"
    /\ sheet' = sheet \o Header2Instrs(row + 2)
    /\ row' = row + 9
    /\ mgr_by_apt' = MgrByApt
    /\ sorted_apts' \in {SortedApts(order) : order \in IterationOrders(DOMAIN MgrByApt)}
    /\ mgr_idx' = 1
    /\ pc' = "mgr"
    /\ UNCHANGED <<inputs, processed_data, apartments, apt_idx, all_dept_groups,
                   global_dept_rank_map, apt2a_has_records, apt2a_start_row,
                   apt2a_end_row, layout, saved, run, first_sheet>>

(***************************************************************************)
(* report.rs 584-705: one apartment block of the ManagerTable              *)
(***************************************************************************)
\* report.rs 591-595, 633-636
MgrRecords(apt, mgr) ==
    SelectSeq(processed_data, LAMBDA r : r.apartment = apt /\ r.manager = mgr)

\* report.rs 588-599, for one iteration order of the HashSet
MgrTotals(apt, order) ==
    SortByTotalDesc([i \in 1..Len(order) |->
                        <<order[i], SumDeduction(MgrRecords(apt, order[i]))>>])

\* report.rs 616-624: the minimum roster floor of each roster manager of apt
MgrFloors(apt) ==
    LET rows == {i \in 1..Len(all_managers) : all_managers[i][1] = apt}
    IN [n \in {all_managers[i][3] : i \in rows} |->
          CHOOSE f \in {all_managers[i][2] : i \in {j \in rows : all_managers[j][3] = n}} :
             \A i \in rows : all_managers[i][3] = n => f <= all_managers[i][2]]

\* report.rs 627: mgr_floors.get(n).cloned().unwrap_or(99)
FloorKey(mgr_floors, n) == IF n \in DOMAIN mgr_floors THEN mgr_floors[n] ELSE 99

\* report.rs 626-627
SortedMgrs(mgr_floors, mgr_totals) ==
    StableSort(mgr_totals,
               LAMBDA a, b : FloorKey(mgr_floors, a[1]) < FloorKey(mgr_floors, b[1]))

\* report.rs 640-645: the placeholder row of a manager without records
MgrPlaceholder(r, mgr, rank) ==
    << write_string(r, 1, mgr),
       write_string(r, 2, Filler),
       merge_range(r, 3, r, 4, Filler),
       write_string(r, 5, Filler),
       merge_range(r, 6, r, 7, Filler),
       write_number(r, 8, rank) >>

\* report.rs 651-661: the rows of a manager's records
RECURSIVE MgrDormRows(_, _, _)
MgrDormRows(sorted_recs, mgr_start, idx) ==
    IF idx > Len(sorted_recs) THEN <<>>
    ELSE << write_string(mgr_start + idx - 1, 2, to_string(sorted_recs[idx].dorm) \o "dorm"),
            merge_range(mgr_start + idx - 1, 3, mgr_start + idx - 1, 4,
                        sorted_recs[idx].reason),
            write_number(mgr_start + idx - 1, 5, sorted_recs[idx].deduction) >>
         \o MgrDormRows(sorted_recs, mgr_start, idx + 1)

\* report.rs 663-694: label, total and rank of a manager with n >= 1 rows
MgrLabelInstrs(mgr_start, n, mgr, total, rank) ==
    IF n > 1
    THEN << merge_range(mgr_start, 1, mgr_start + n - 1, 1, mgr),
            merge_range(mgr_start, 6, mgr_start + n - 1, 7, to_string(total)),
            merge_range(mgr_start, 8, mgr_start + n - 1, 8, to_string(rank)) >>
    ELSE << write_string(mgr_start, 1, mgr),
            merge_range(mgr_start, 6, mgr_start, 7, to_string(total)),
            write_number(mgr_start, 8, rank) >>

\* report.rs 631-696: the body of the manager loop for <<mgr, total>>
RenderMgr(apt, rank_map, entry, cur) ==
    LET mgr == entry[1]
        total == entry[2]
        rank == rank_map[mgr]
        recs == MgrRecords(apt, mgr)
        sorted_recs == SortByDorm(recs)
        n == Len(sorted_recs)
    IN IF recs = <<>>
       THEN Cursor(cur.sheet \o MgrPlaceholder(cur.row, mgr, rank),
                   Append(cur.layout,
                          Group(2, apt, "mgr", <<0, mgr>>, cur.row, 1, TRUE, TRUE, <<>>,
                                total, rank)),
                   cur.row + 1, cur.start, cur.end)
       ELSE Cursor(cur.sheet \o MgrDormRows(sorted_recs, cur.row, 1)
                       \o MgrLabelInstrs(cur.row, n, mgr, total, rank),
                   Append(cur.layout,
                          Group(2, apt, "mgr", <<0, mgr>>, cur.row, n, FALSE, TRUE,
                                sorted_recs, total, rank)),
                   cur.row + n, cur.start, cur.end)

RECURSIVE RenderMgrs(_, _, _, _, _)
RenderMgrs(apt, rank_map, sorted_mgrs, i, cur) ==
    IF i > Len(sorted_mgrs) THEN cur
    ELSE RenderMgrs(apt, rank_map, sorted_mgrs, i + 1,
                    RenderMgr(apt, rank_map, sorted_mgrs[i], cur))

\* The whole block of apt, for the mgr_totals Vec that one iteration order
\* of the apartment's manager HashSet gives.
MgrBlockResult(apt, mgr_totals, cur) ==
    LET rank_map == RankMap(mgr_totals)
        apt_start == cur.row
        mgr_floors == MgrFloors(apt)
        after == RenderMgrs(apt, rank_map, SortedMgrs(mgr_floors, mgr_totals), 1, cur)
    IN [after EXCEPT !.sheet = @ \o AptLabelInstrs(apt_start, after.row, apt)]

MgrBlock ==
    /\ pc = "mgr"
    /\ mgr_idx <= Len(sorted_apts)
    /\ LET apt == sorted_apts[mgr_idx]
       IN \E mgr_totals \in
                {MgrTotals(apt, order) : order \in IterationOrders(mgr_by_apt[apt])} :
             LET res == MgrBlockResult(apt, mgr_totals,
                            Cursor(sheet, layout, row, apt2a_start_row, apt2a_end_row))
             IN /\ sheet' = res.sheet
                /\ layout' = res.layout
                /\ row' = res.row
    /\ mgr_idx' = mgr_idx + 1
    /\ UNCHANGED <<inputs, processed_data, pc, apartments, apt_idx, all_dept_groups,
                   global_dept_rank_map, apt2a_has_records, apt2a_start_row,
                   apt2a_end_row, mgr_by_apt, sorted_apts, saved, run, first_sheet>>

(***************************************************************************)
(* report.rs 707-719: column widths and workbook.save                      *)
(***************************************************************************)
ColumnWidths == <<12, 12, 12, 10, 10, 18, 8, 8, 8>>

\* A save that does not wait for the last apartment block of table 2.
SaveEarly ==
    /\ pc = "mgr"
    /\ sheet' = sheet \o [i \in 1..Len(ColumnWidths) |-> set_column_width(i - 1, ColumnWidths[i])]
    /\ saved' = TRUE
    /\ pc' = "done"
    /\ UNCHANGED <<inputs, processed_data, row, apartments, apt_idx, all_dept_groups,
                   global_dept_rank_map, apt2a_has_records, apt2a_start_row,
                   apt2a_end_row, mgr_by_apt, sorted_apts, mgr_idx, layout, run,
                   first_sheet>>

Save ==
    /\ pc = "mgr"
    /\ mgr_idx > Len(sorted_apts)
    /\ sheet' = sheet \o [i \in 1..Len(ColumnWidths) |-> set_column_width(i - 1, ColumnWidths[i])]
    /\ saved' = TRUE
    /\ pc' = "done"
    /\ UNCHANGED <<inputs, processed_data, row, apartments, apt_idx, all_dept_groups,
                   global_dept_rank_map, apt2a_has_records, apt2a_start_row,
                   apt2a_end_row, mgr_by_apt, sorted_apts, mgr_idx, layout, run,
                   first_sheet>>

(***************************************************************************)
(* generate_report called a second time on the same files                  *)
(***************************************************************************)
Rerun ==
    /\ pc = "done"
    /\ run = 1
    /\ first_sheet' = sheet
    /\ run' = 2
    /\ pc' = "load"
    /\ Fresh
    /\ saved' = FALSE
    /\ UNCHANGED inputs

Next ==
    \/ Load
    \/ Fail
    \/ Enrich
    \/ Header1
    \/ GlobalRanking
    \/ DeptBlock
    \/ DeferredMerge
    \/ Header2
    \/ MgrBlock
    \/ Save

Spec == Init /\ [][Next]_vars

\* The pipeline run twice on the same input files.
NextTwice == Next \/ Rerun

SpecTwice == Init /\ [][NextTwice]_vars

\* The pipeline on inputs from the whole width of the record types.
SpecWide == InitWide /\ [][Next]_vars

(***************************************************************************)
(* The stand-alone variant: main of main.rs.  It reads the input file and  *)
(* the classroom and manager rosters (no department roster), writes the    *)
(* same two tables without placeholder rows for departments, and ranks     *)
(* both tables per apartment.  Title block, dorm rows, label cells and the *)
(* manager rows are the code of report.rs repeated line by line, so the    *)
(* operators of those are used for both.                                   *)
(***************************************************************************)
MaxMainRecs == 4

\* (grade, class, dorm) of the rows of test_data.csv.
MainRows == {<<1, 1, 101>>, <<2, 1, 101>>, <<1, 17, 101>>, <<2, 18, 201>>}

MainRecordPool ==
    {ReportDataRecord(x[1], x[2], a, x[3], why) :
        x \in MainRows, a \in Apartments, why \in Reasons}

MainRecordLists == UNION {[1..n -> MainRecordPool] : n \in 0..MaxMainRecs}

\* main is entered: what its four loads (main.rs 73-76) will return.
InitMain ==
    /\ records \in MainRecordLists
    /\ nianji_map = load_grade_data(NianjiRows)
    /\ \E rows \in SusheFiles :
          /\ sushe_map = load_apt_data(rows)
          /\ all_managers = get_all_managers(rows)
    /\ jibu_map = <<>>
    /\ Entry

\* The variables of generate_report that main does not have.
report_only == <<all_dept_groups, global_dept_rank_map, apt2a_has_records,
                 apt2a_start_row, apt2a_end_row, run, first_sheet>>

\* main.rs 73-76: the four loads succeed
MainLoad ==
    /\ pc = "load"
    /\ pc' = "enrich"
    /\ UNCHANGED <<inputs, processed_data, row, apartments, apt_idx, mgr_by_apt,
                   sorted_apts, mgr_idx, sheet, layout, saved, report_only>>

\* Every load (main.rs 73-76), Image::new, every worksheet call (140-486)
\* and the save (488) ends in `?`: main returns Err at that point.
MainFail ==
    /\ pc \in {"load", "header1", "dept", "mgr"}
    /\ pc' = "failed"
    /\ UNCHANGED <<inputs, processed_data, row, apartments, apt_idx, mgr_by_apt,
                   sorted_apts, mgr_idx, sheet, layout, saved, report_only>>

\* main.rs 78-100: the enrichment loop
MainEnrich ==
    /\ pc = "enrich"
    /\ processed_data' = [i \in 1..Len(records) |-> Enriched(records[i])]
    /\ pc' = "header1"
    /\ UNCHANGED <<inputs, row, apartments, apt_idx, mgr_by_apt, sorted_apts, mgr_idx,
                   sheet, layout, saved, report_only>>

\* main.rs 188: apartments.sort()
MainSortedApartments(order) == StableSort(order, LAMBDA a, b : a < b)

\* main.rs 140-188: the header of table 1, the row cursor, the apartments
MainHeader1 ==
    /\ pc = "header1"
    /\ sheet' = sheet \o Header1Instrs
    /\ row' = 7
    /\ apartments' \in
          {MainSortedApartments(order) : order \in IterationOrders(ApartmentSet)}
    /\ apt_idx' = 1
    /\ pc' = "dept"
    /\ UNCHANGED <<inputs, processed_data, mgr_by_apt, sorted_apts, mgr_idx, layout,
                   saved, report_only>>

\* main.rs 203-217, 370-384: cur_rank, last_score and cnt after the first i
\* entries of the sorted Vec.
RECURSIVE RankLoop(_, _)
RankLoop(sorted, i) ==
    IF i = 1
    THEN [cur_rank |-> 1, last_score |-> sorted[1][2], cnt |-> 1]
    ELSE LET before == RankLoop(sorted, i - 1)
         IN IF sorted[i][2] = before.last_score
            THEN [before EXCEPT !.cnt = @ + 1]
            ELSE [cur_rank |-> before.cur_rank + before.cnt,
                  last_score |-> sorted[i][2], cnt |-> 1]

\* The rank map of the dense loop of report.rs.
MainRankMapDense(sorted) == RankMap(sorted)

\* main.rs 203-218, 370-385: rank_map, built from a sorted Vec
MainRankMap(sorted) ==
    [k \in {sorted[i][1] : i \in 1..Len(sorted)} |->
        RankLoop(sorted, CHOOSE i \in 1..Len(sorted) : sorted[i][1] = k).cur_rank]

\* main.rs 192-195: groups of the block; the records without a department
\* are grouped under the empty department.
MainGroups(apt) ==
    [k \in {DeptKey(r) : r \in Range(RecordsOf(apt))} |->
        SelectSeq(RecordsOf(apt), LAMBDA r : DeptKey(r) = k)]

\* main.rs 197-201, for one iteration order of the HashMap
GroupTotals(groups, order) ==
    SortByTotalDesc([i \in 1..Len(order) |-> <<order[i], SumDeduction(groups[order[i]])>>])

\* main.rs 221-228
MainSortedKeys(order) ==
    StableSort(order, LAMBDA a, b :
        IF a[1] # b[1] THEN a[1] < b[1] ELSE DeptOrd(a[2]) < DeptOrd(b[2]))

\* main.rs 238-244
MainDeptDisplay(k) == GradeName(k[1]) \o k[2] \o "-dept"

\* main.rs 231-285: the body of the group loop for key k
MainRenderGroup(apt, groups, group_totals, rank_map, k, cur) ==
    LET rs == groups[k]
        total == group_totals[CHOOSE i \in 1..Len(group_totals) : group_totals[i][1] = k][2]
        rank == rank_map[k]
        sorted_rs == SortByDorm(rs)
        n == Len(sorted_rs)
        grp_start == cur.row
    IN Cursor(cur.sheet \o DormRows(sorted_rs, grp_start, 1)
                  \o (IF n > 0
                      THEN LabelInstrs(grp_start, n, MainDeptDisplay(k), total, rank)
                      ELSE <<>>),
              Append(cur.layout,
                     Group(1, apt, "dept", k, grp_start, n, FALSE, n > 0, sorted_rs,
                           total, rank)),
              cur.row + n, cur.start, cur.end)

RECURSIVE MainRenderGroups(_, _, _, _, _, _, _)
MainRenderGroups(apt, groups, group_totals, rank_map, sorted_keys, i, cur) ==
    IF i > Len(sorted_keys) THEN cur
    ELSE MainRenderGroups(apt, groups, group_totals, rank_map, sorted_keys, i + 1,
             MainRenderGroup(apt, groups, group_totals, rank_map, sorted_keys[i], cur))

\* main.rs 190-294: one apartment block of table 1
MainDeptBlock ==
    /\ pc = "dept"
    /\ apt_idx <= Len(apartments)
    /\ LET apt == apartments[apt_idx]
           groups == MainGroups(apt)
       IN \E group_totals \in
                {GroupTotals(groups, order) : order \in IterationOrders(DOMAIN groups)},
             sorted_keys \in
                {MainSortedKeys(order) : order \in IterationOrders(DOMAIN groups)} :
             LET apt_start == row
                 res == MainRenderGroups(apt, groups, group_totals,
                            MainRankMap(group_totals), sorted_keys, 1,
                            Cursor(sheet, layout, row, <<>>, <<>>))
             IN /\ sheet' = res.sheet \o AptLabelInstrs(apt_start, res.row, apt)
                /\ layout' = res.layout
                /\ row' = res.row
    /\ apt_idx' = apt_idx + 1
    /\ UNCHANGED <<inputs, processed_data, pc, apartments, mgr_by_apt, sorted_apts,
                   mgr_idx, saved, report_only>>

\* main.rs 296-351: the header of table 2, the managers per apartment
MainHeader2 ==
    /\ pc = "dept"
    /\ apt_idx > Len(apartments)
    /\ sheet' = sheet \o Header2Instrs(row + 2)
    /\ row' = row + 9
    /\ mgr_by_apt' = MgrByApt
    /\ sorted_apts' \in {SortedApts(order) : order \in IterationOrders(DOMAIN MgrByApt)}
    /\ mgr_idx' = 1
    /\ pc' = "mgr"
    /\ UNCHANGED <<inputs, processed_data, apartments, apt_idx, layout, saved,
                   report_only>>

\* main.rs 353-476: one apartment block of table 2
MainMgrBlock ==
    /\ pc = "mgr"
    /\ mgr_idx <= Len(sorted_apts)
    /\ LET apt == sorted_apts[mgr_idx]
       IN \E mgr_totals \in
                {MgrTotals(apt, order) : order \in IterationOrders(mgr_by_apt[apt])} :
             LET apt_start == row
                 res == RenderMgrs(apt, MainRankMap(mgr_totals),
                            SortedMgrs(MgrFloors(apt), mgr_totals), 1,
                            Cursor(sheet, layout, row, <<>>, <<>>))
             IN /\ sheet' = res.sheet \o AptLabelInstrs(apt_start, res.row, apt)
                /\ layout' = res.layout
                /\ row' = res.row
    /\ mgr_idx' = mgr_idx + 1
    /\ UNCHANGED <<inputs, processed_data, pc, apartments, apt_idx, mgr_by_apt,
                   sorted_apts, saved, report_only>>

\* main.rs 478-488: column widths and workbook.save
MainSave ==
    /\ pc = "mgr"
    /\ mgr_idx > Len(sorted_apts)
    /\ sheet' = sheet \o [i \in 1..Len(ColumnWidths) |-> set_column_width(i - 1, ColumnWidths[i])]
    /\ saved' = TRUE
    /\ pc' = "done"
    /\ UNCHANGED <<inputs, processed_data, row, apartments, apt_idx, mgr_by_apt,
                   sorted_apts, mgr_idx, layout, report_only>>

NextMain ==
    \/ MainLoad
    \/ MainFail
    \/ MainEnrich
    \/ MainHeader1
    \/ MainDeptBlock
    \/ MainHeader2
    \/ MainMgrBlock
    \/ MainSave

SpecMain == InitMain /\ [][NextMain]_vars

(***************************************************************************)
(* Properties                                                              *)
(***************************************************************************)
Groups(table, apt, kind) ==
    {layout[i] : i \in {j \in 1..Len(layout) :
        layout[j].table = table /\ layout[j].apt = apt /\ layout[j].kind = kind}}

\* The global ranking has been computed.
Ranked == pc \in {"dept", "header2", "mgr", "done"}

\* TR is a set of <<total, rank>> pairs, one per key of a ranking scope:
\* equal totals share a rank, a greater total has a smaller rank, and the
\* ranks are exactly 1..K for K distinct totals.
DenseRanking(TR) ==
    /\ \A p, q \in TR : (p[1] = q[1] => p[2] = q[2]) /\ (p[1] > q[1] => p[2] < q[2])
    /\ {p[2] : p \in TR} = 1..Cardinality({p[1] : p \in TR})

GlobalScope ==
    {<<SumDeduction(all_dept_groups[k]), global_dept_rank_map[k]>> :
        k \in DOMAIN all_dept_groups}

ClassScope(apt) ==
    {<<SumDeduction(ClassGroups(apt)[g.key[1]]), g.rank>> : g \in Groups(1, apt, "class")}

MgrScope(apt) ==
    {<<SumDeduction(MgrRecords(apt, g.key[2])), g.rank>> : g \in Groups(2, apt, "mgr")}

TieAbove(TR, keys) == keys >= 3 /\ \E p, q \in TR : p[1] > q[1]

Emitted(ins) == \E i \in 1..Len(sheet) : sheet[i] = ins

CellOps == {"write_string", "write_number", "merge_range"}

\* The instructions that write or merge a cell of column c in rows r0..r1.
Touching(r0, r1, c) ==
    {i \in 1..Len(sheet) :
        /\ sheet[i].op \in CellOps
        /\ sheet[i].col <= c /\ c <= sheet[i].last_col
        /\ sheet[i].row <= r1 /\ r0 <= sheet[i].last_row}

DeptGroupsOf(k) ==
    {layout[i] : i \in {j \in 1..Len(layout) :
        layout[j].table = 1 /\ layout[j].kind = "dept" /\ layout[j].key = k}}

\* Table 1 is complete (all apartment blocks and the deferred merge).
Table1Done == pc \in {"header2", "mgr", "done"}

\* The records of key k that lie in apartment apt, and everywhere.
LocalRecords(k, apt) ==
    SelectSeq(processed_data, LAMBDA r : r.apartment = apt /\ r.dept # "" /\ DeptKey(r) = k)

KeyRecords(k) == SelectSeq(processed_data, LAMBDA r : r.dept # "" /\ DeptKey(r) = k)

\* The dense rank of key k over the cross-apartment totals of the roster
\* departments and of the departments of the records: one more than the
\* number of distinct totals greater than its own.
AllDeptKeys ==
    DOMAIN jibu_map \cup {DeptKey(r) : r \in {x \in Range(processed_data) : x.dept # ""}}

GlobalRankOf(k) ==
    1 + Cardinality({t \in {SumDeduction(KeyRecords(j)) : j \in AllDeptKeys} :
                        t > SumDeduction(KeyRecords(k))})

\* The row r is written as a department placeholder row showing rank: the
\* filler in the teacher, manager, dorm, reason and deduction columns.
IsDeptPlaceholderRow(r, rank) ==
    /\ \A c \in 2..6 : Emitted(write_string(r, c, Filler))
    /\ Emitted(write_number(r, 8, rank))

\* The instructions on column c that lie within the rows r0..r1.
Within(r0, r1, c) ==
    {i \in Touching(r0, r1, c) : r0 <= sheet[i].row /\ sheet[i].last_row <= r1}

\* Column c of the group g shows the number v: merged over its rows when it
\* has more than one row, written directly otherwise, and no other
\* instruction is emitted for these cells alone.
ShowsNumber(g, c, v) ==
    /\ IF g.last > g.first
       THEN Emitted(merge_range(g.first, c, g.last, c, to_string(v)))
       ELSE Emitted(write_number(g.first, c, v))
    /\ Cardinality(Within(g.first, g.last, c)) = 1

(***************************************************************************)
(* C2, C3, C7: the blocks of table 1 and the roster                        *)
(***************************************************************************)
\* C2: every roster department without any violation record is rendered in
\* the DepartmentTable as exactly one row, a placeholder row with the filler
\* in columns 2..6 and its global rank in column 8.
C2_ZeroRecordDeptOneRow ==
    Table1Done =>
        \A k \in DOMAIN jibu_map :
            KeyRecords(k) = <<>> =>
                /\ Cardinality(DeptGroupsOf(k)) = 1
                /\ \A g \in DeptGroupsOf(k) :
                      g.placeholder /\ IsDeptPlaceholderRow(g.first, GlobalRankOf(k))

\* C3: the apartments that get a block in the DepartmentTable are the home
\* apartments of the department roster, whatever the records are.
C3_BlocksAreRosterHomes ==
    Table1Done => Range(apartments) = {jibu_map[k].apartment : k \in DOMAIN jibu_map}

\* C7: when no record has the key (2, "A") and the roster lists it, the
\* DepartmentTable has exactly one placeholder row for it, in the block of
\* apartment 1.
C7_NeitherPlaceholderInApt1 ==
    (Table1Done /\ Apt2AHasRecords = {} /\ Key2A \in DOMAIN jibu_map) =>
        /\ Cardinality(DeptGroupsOf(Key2A)) = 1
        /\ \A g \in DeptGroupsOf(Key2A) :
              g.apt = 1 /\ g.placeholder
              /\ IsDeptPlaceholderRow(g.first, GlobalRankOf(Key2A))

(***************************************************************************)
(* C4, C5: the total and the rank shown for a department group              *)
(***************************************************************************)
\* The deferred merge of column c over the rows first..last with text.
DeferredMergeOf(c, text) ==
    \E g2, g1 \in DeptGroupsOf(Key2A) :
        /\ g2.apt = apartments[1]
        /\ g1.apt = apartments[Len(apartments)]
        /\ Emitted(merge_range(g2.first, c, g1.last, c, text))

\* C4: a department group rendered with its own total cell shows the sum of
\* deduction over its records of that apartment; when (2, "A") has records
\* in both apartments the deferred merge shows the sum of its two
\* apartment-local totals.
C4_Totals ==
    /\ \A i \in 1..Len(layout) :
          (layout[i].table = 1 /\ layout[i].kind = "dept"
               /\ layout[i].labelled /\ ~layout[i].placeholder) =>
             ShowsNumber(layout[i], 7,
                         SumDeduction(LocalRecords(layout[i].key, layout[i].apt)))
    /\ (Table1Done /\ Apt2AHasRecords = {1, 2}) =>
          DeferredMergeOf(7, to_string(SumDeduction(LocalRecords(Key2A, 1))
                                       + SumDeduction(LocalRecords(Key2A, 2))))

\* (2, "A") has records in both apartments and the deferred merge shows a
\* total that is neither of its apartment-local totals.
C4_Witness ==
    /\ pc = "done"
    /\ Apt2AHasRecords = {1, 2}
    /\ \E i \in 1..Len(sheet) :
          /\ sheet[i].op = "merge_range" /\ sheet[i].col = 7
          /\ sheet[i].text = to_string(SumDeduction(KeyRecords(Key2A)))
          /\ \A apt \in Apartments :
                SumDeduction(LocalRecords(Key2A, apt)) # SumDeduction(KeyRecords(Key2A))

\* C5: the rank shown for a department group (placeholder row, single row,
\* merged span, deferred merge) is the key's dense rank over the
\* cross-apartment totals of the roster departments and of the departments
\* of the records; the rank map holds it from before the first block on.
C5_GlobalRank ==
    /\ Ranked => \A k \in AllDeptKeys : global_dept_rank_map[k] = GlobalRankOf(k)
    /\ \A i \in 1..Len(layout) :
          (layout[i].table = 1 /\ layout[i].kind = "dept") =>
             IF layout[i].placeholder
             THEN Emitted(write_number(layout[i].first, 8, GlobalRankOf(layout[i].key)))
             ELSE layout[i].labelled =>
                     ShowsNumber(layout[i], 8, GlobalRankOf(layout[i].key))
    /\ (Table1Done /\ Apt2AHasRecords = {1, 2}) =>
          DeferredMergeOf(8, to_string(GlobalRankOf(Key2A)))

\* A labelled group whose rank among the groups of its own block differs
\* from its global rank.
C5_Witness ==
    /\ pc = "done"
    /\ \E i \in 1..Len(layout) :
          /\ layout[i].table = 1 /\ layout[i].kind = "dept" /\ layout[i].labelled
          /\ DeptRankLocal(DeptGroups(layout[i].apt), layout[i].key)
                # GlobalRankOf(layout[i].key)

(***************************************************************************)
(* C6, C8: the designated key (2, "A")                                     *)
(***************************************************************************)
\* The department groups of the block of apt are in (grade, department) order.
InKeyOrder(apt) ==
    \A g, h \in Groups(1, apt, "dept") :
        (g.key[1] < h.key[1] \/ (g.key[1] = h.key[1] /\ DeptOrd(g.key[2]) < DeptOrd(h.key[2])))
            => g.last < h.first

\* The label, total and rank instructions on the rows of the 2A groups.
On2ARows(c) ==
    UNION {Touching(g.first, g.last, c) : g \in DeptGroupsOf(Key2A)}

\* C6: when (2, "A") has records in both apartments, each block holds its
\* dorm rows at the place the (grade, department) order gives, no cell of
\* columns 1, 7, 8 is written or merged on these rows inside the blocks, and
\* after the blocks exactly one merge per column 1, 7, 8 runs from the first
\* row of the first occurrence to the last row of the last one, column 8
\* carrying the global rank.
C6_DeferredMerge ==
    (Ranked /\ apt2a_in_both) =>
        /\ \A g \in DeptGroupsOf(Key2A) :
              /\ ~g.placeholder /\ ~g.labelled
              /\ g.recs = SortByDorm(LocalRecords(Key2A, g.apt))
              /\ InKeyOrder(g.apt)
        /\ \A apt \in Apartments :
              Cardinality({g \in DeptGroupsOf(Key2A) : g.apt = apt}) <= 1
        /\ pc = "dept" => \A c \in {1, 7, 8} : On2ARows(c) = {}
        /\ Table1Done =>
              /\ Cardinality(DeptGroupsOf(Key2A)) = 2
              /\ \A c \in {1, 7, 8} :
                    /\ Cardinality(On2ARows(c)) = 1
                    /\ \A i \in On2ARows(c) :
                          /\ sheet[i].op = "merge_range"
                          /\ \E g2, g1 \in DeptGroupsOf(Key2A) :
                                /\ g2.apt = 2 /\ g1.apt = 1
                                /\ sheet[i].row = g2.first
                                /\ sheet[i].last_row = g1.last
                          /\ sheet[i].col = c /\ sheet[i].last_col = c
              /\ DeferredMergeOf(8, to_string(GlobalRankOf(Key2A)))

C6_Witness == pc = "done" /\ apt2a_in_both /\ Cardinality(DeptGroupsOf(Key2A)) = 2

\* C8: when (2, "A") has records in exactly one of the apartments 1 and 2,
\* it is rendered in that apartment's block as an ordinary group (dorm rows,
\* own label, apartment-local total and global rank, merged when it has more
\* than one row), it is not rendered in the other block, and no deferred
\* merge is emitted.
C8_SingleApartment ==
    (Table1Done /\ Cardinality(Apt2AHasRecords) = 1) =>
        /\ DeferredMergeInstrs = <<>>
        /\ Cardinality(DeptGroupsOf(Key2A)) = 1
        /\ \A g \in DeptGroupsOf(Key2A) :
              /\ g.apt \in Apt2AHasRecords
              /\ ~g.placeholder /\ g.labelled
              /\ g.recs = SortByDorm(LocalRecords(Key2A, g.apt))
              /\ \A j \in 1..Len(LabelInstrs(g.first, Len(g.recs), DeptDisplay(Key2A),
                                             SumDeduction(LocalRecords(Key2A, g.apt)),
                                             GlobalRankOf(Key2A))) :
                    Emitted(LabelInstrs(g.first, Len(g.recs), DeptDisplay(Key2A),
                                        SumDeduction(LocalRecords(Key2A, g.apt)),
                                        GlobalRankOf(Key2A))[j])
              /\ \A c \in {1, 7, 8} : Cardinality(Touching(g.first, g.last, c)) = 1

\* 2A has records in one apartment only, the roster names the other
\* apartment as its home, and the other apartment has a block.
C8_Witness ==
    /\ pc = "done"
    /\ Cardinality(Apt2AHasRecords) = 1
    /\ Key2A \in DOMAIN jibu_map
    /\ jibu_map[Key2A].apartment \notin Apt2AHasRecords
    /\ jibu_map[Key2A].apartment \in Range(apartments)

(***************************************************************************)
(* C10: classroom groups                                                   *)
(***************************************************************************)
\* C10: every classroom group rendered in the DepartmentTable has at least
\* one dorm row, each of its rows is a record without department of that
\* class in that apartment, and none is a placeholder.
C10_NoEmptyClassGroup ==
    \A i \in 1..Len(layout) :
        (layout[i].table = 1 /\ layout[i].kind = "class") =>
            /\ ~layout[i].placeholder
            /\ layout[i].recs # <<>>
            /\ layout[i].last - layout[i].first + 1 = Len(layout[i].recs)
            /\ \A j \in 1..Len(layout[i].recs) :
                  /\ layout[i].recs[j].apartment = layout[i].apt
                  /\ layout[i].recs[j].dept = ""
                  /\ layout[i].recs[j].class = layout[i].key[1]
                  /\ layout[i].recs[j] \in Range(processed_data)

\* A classroom group is rendered in one block while the other block exists
\* and has no row for that class.
C10_Witness ==
    /\ pc = "done"
    /\ Len(apartments) = 2
    /\ \E g \in Groups(1, 1, "class") :
          \A h \in Groups(1, 2, "class") : h.key # g.key

(***************************************************************************)
(* C9: two runs on the same input                                          *)
(***************************************************************************)
\* C9: the second run on identical records and rosters emits the same
\* instructions, in the same order, as the first.
C9_Deterministic == (run = 2 /\ pc = "done") => sheet = first_sheet

(***************************************************************************)
(* C11, C12: enrichment                                                    *)
(***************************************************************************)
\* The records of processed_data that belong to the rendered group g.
Members(g) ==
    CASE g.kind = "dept" -> LocalRecords(g.key, g.apt)
      [] g.kind = "class" ->
            SelectSeq(processed_data,
                      LAMBDA r : r.apartment = g.apt /\ r.dept = "" /\ r.class = g.key[1])
      [] OTHER ->
            SelectSeq(processed_data,
                      LAMBDA r : r.apartment = g.apt /\ r.manager = g.key[2])

\* C11: every ProcessedRecord has deduction -1, and every total the run
\* computes (the total of each rendered department, classroom and manager
\* group, the cross-apartment total of each department key) is minus the
\* number of the group's member records, hence not positive.
C11_DeductionMinusOne ==
    /\ \A i \in 1..Len(processed_data) : processed_data[i].deduction = -1
    /\ \A i \in 1..Len(layout) :
          /\ layout[i].total = 0 - Len(Members(layout[i]))
          /\ layout[i].total <= 0
    /\ Ranked =>
          \A k \in DOMAIN all_dept_groups :
              /\ SumDeduction(all_dept_groups[k]) = 0 - Len(KeyRecords(k))
              /\ SumDeduction(all_dept_groups[k]) <= 0

\* A group of two records (total -2) and a group without records (total 0)
\* have been rendered in each table.
C11_Witness ==
    /\ pc = "done"
    /\ \A t \in {1, 2} :
          /\ \E i \in 1..Len(layout) : layout[i].table = t /\ layout[i].total = -2
          /\ \E i \in 1..Len(layout) : layout[i].table = t /\ layout[i].total = 0

\* The enrichment loop is over and the run has not failed.
EnrichDone == pc \in {"header1", "rank", "dept", "header2", "mgr", "done"}

\* C12: enrichment yields exactly one ProcessedRecord per input record, in
\* input order, with the record's own fields; a (grade, class) the classroom
\* roster lacks gives department "" and the sentinel teacher, an
\* (apartment, floor) the manager roster lacks gives the sentinel manager
\* (floor being the floor the record is looked up with), a hit gives the
\* roster's values, and the run goes on to the tables.
C12_LookupMissDefaults ==
    EnrichDone =>
        /\ Len(processed_data) = Len(records)
        /\ \A i \in 1..Len(records) :
              LET r == records[i]
                  p == processed_data[i]
                  gc == <<r.grade, r.class>>
                  af == <<r.apartment, Floor(r.dorm)>>
              IN /\ p.apartment = r.apartment /\ p.grade = r.grade /\ p.class = r.class
                 /\ p.dorm = r.dorm /\ p.reason = r.reason
                 /\ IF gc \in DOMAIN nianji_map
                    THEN p.dept = nianji_map[gc].dept /\ p.teacher = nianji_map[gc].teacher
                    ELSE p.dept = "" /\ p.teacher = Unknown
                 /\ IF af \in DOMAIN sushe_map
                    THEN p.manager = sushe_map[af]
                    ELSE p.manager = Unknown

\* The run is complete for an input with a record that misses the classroom
\* roster and a record that misses the manager roster, and both records
\* have their rows in the two tables.
C12_Witness ==
    /\ pc = "done" /\ saved
    /\ \E i, j \in 1..Len(records) :
          /\ <<records[i].grade, records[i].class>> \notin DOMAIN nianji_map
          /\ <<records[j].apartment, Floor(records[j].dorm)>> \notin DOMAIN sushe_map
          /\ processed_data[i].teacher = Unknown
          /\ processed_data[j].manager = Unknown
          /\ \A t \in {1, 2} : \A k \in {i, j} :
                \E m \in 1..Len(layout) :
                    layout[m].table = t /\ processed_data[k] \in Range(layout[m].recs)

(***************************************************************************)
(* C13: the floor of a dorm number                                         *)
(***************************************************************************)
\* The manager the roster gives for the apartment and floor, the sentinel
\* on a miss.
ManagerAt(apt, floor) ==
    IF <<apt, floor>> \in DOMAIN sushe_map THEN sushe_map[<<apt, floor>>] ELSE Unknown

\* C13: for every dorm number a u16 holds, the manager of a ProcessedRecord
\* is the one looked up with floor = dorm div 100 (the sentinel when the
\* roster has no such floor in the apartment).
C13_FloorIsDormDiv100 ==
    EnrichDone =>
        \A i \in 1..Len(records) :
            processed_data[i].manager =
                ManagerAt(records[i].apartment, records[i].dorm \div 100)

(***************************************************************************)
(* C14, C15: the manager groups of a block of the ManagerTable             *)
(***************************************************************************)
\* The floors the roster lists for manager name in apartment apt.
RosterFloors(apt, name) ==
    {all_managers[i][2] : i \in {j \in 1..Len(all_managers) :
        all_managers[j][1] = apt /\ all_managers[j][3] = name}}

MinRosterFloor(apt, name) ==
    CHOOSE f \in RosterFloors(apt, name) : \A e \in RosterFloors(apt, name) : f <= e

\* The block of apt in the ManagerTable has been emitted.
MgrBlockDone(apt) == Groups(2, apt, "mgr") # {}

\* C14: in each apartment block of the ManagerTable every manager of the
\* apartment's roster and every manager of the apartment's records is
\* listed; a roster manager with a smaller minimum roster floor comes before
\* one with a greater, whatever their ranks; a manager who is not in the
\* apartment's roster comes after every roster manager.
C14_FloorOrder ==
    \A apt \in Apartments :
        MgrBlockDone(apt) =>
            /\ \A r \in Range(processed_data) :
                  r.apartment = apt =>
                      \E g \in Groups(2, apt, "mgr") : g.key[2] = r.manager
            /\ \A i \in 1..Len(all_managers) :
                  all_managers[i][1] = apt =>
                      \E g \in Groups(2, apt, "mgr") : g.key[2] = all_managers[i][3]
            /\ \A g, h \in Groups(2, apt, "mgr") :
                  LET fg == RosterFloors(apt, g.key[2])
                      fh == RosterFloors(apt, h.key[2])
                  IN /\ (fg # {} /\ fh # {}
                           /\ MinRosterFloor(apt, g.key[2]) < MinRosterFloor(apt, h.key[2]))
                        => g.last < h.first
                     /\ (fg # {} /\ fh = {}) => g.last < h.first

\* The manager set of apt: the roster's managers of the apartment and the
\* managers of the apartment's records.
ManagerSet(apt) ==
    {all_managers[i][3] : i \in {j \in 1..Len(all_managers) : all_managers[j][1] = apt}}
    \cup {r.manager : r \in {x \in Range(processed_data) : x.apartment = apt}}

MatchingRecords(apt, name) ==
    SelectSeq(processed_data, LAMBDA r : r.apartment = apt /\ r.manager = name)

\* The dense rank of the manager among the managers of the apartment.
LocalMgrRank(apt, name) ==
    1 + Cardinality({t \in {0 - Len(MatchingRecords(apt, m)) : m \in ManagerSet(apt)} :
                        t > 0 - Len(MatchingRecords(apt, name))})

\* The row r is written as a manager placeholder row showing rank.
IsMgrPlaceholderRow(r, rank) ==
    /\ Emitted(write_string(r, 2, Filler))
    /\ Emitted(merge_range(r, 3, r, 4, Filler))
    /\ Emitted(write_string(r, 5, Filler))
    /\ Emitted(write_number(r, 8, rank))

\* The dorm cells (column 2) written on the rows of the manager group g.
MgrDormCells(g) ==
    {i \in 1..Len(sheet) :
        /\ sheet[i].op = "write_string" /\ sheet[i].col = 2
        /\ g.first <= sheet[i].row /\ sheet[i].row <= g.last}

\* C15: in each apartment block of the ManagerTable every manager of the
\* apartment's manager set has exactly one group; without matching records
\* it is one placeholder row with the filler in the dorm, reason and
\* deduction columns and the manager's apartment-local dense rank in the
\* rank column; with n >= 1 matching records it is exactly n rows, one dorm
\* cell each, none a placeholder.
C15_MgrPlaceholderRows ==
    \A apt \in Apartments :
        MgrBlockDone(apt) =>
            /\ {g.key[2] : g \in Groups(2, apt, "mgr")} = ManagerSet(apt)
            /\ \A g, h \in Groups(2, apt, "mgr") :
                  g # h => g.key # h.key /\ (g.last < h.first \/ h.last < g.first)
            /\ \A g \in Groups(2, apt, "mgr") :
                  LET n == Len(MatchingRecords(apt, g.key[2]))
                  IN /\ Cardinality(MgrDormCells(g)) = g.last - g.first + 1
                     /\ IF n = 0
                        THEN /\ g.placeholder /\ g.last = g.first
                             /\ IsMgrPlaceholderRow(g.first, LocalMgrRank(apt, g.key[2]))
                        ELSE /\ ~g.placeholder
                             /\ g.last - g.first + 1 = n
                             /\ \A r \in g.first..g.last :
                                   ~Emitted(write_string(r, 2, Filler))

\* A block holds a manager with two records and rank 2 and a manager
\* without records whose placeholder row shows rank 1.
C15_Witness ==
    /\ pc = "done"
    /\ \E apt \in Apartments :
          \E g, h \in Groups(2, apt, "mgr") :
              /\ g.last = g.first + 1 /\ g.rank = 2
              /\ h.placeholder /\ h.rank = 1

(***************************************************************************)
(* C16: all or nothing                                                     *)
(***************************************************************************)
\* Every instruction of both tables has been emitted: the header and every
\* apartment block of table 1, the deferred merge when it is due, the header
\* and every apartment block of table 2, the column widths.
AllEmitted ==
    /\ \A j \in 1..Len(Header1Instrs) : sheet[j] = Header1Instrs[j]
    /\ apt_idx > Len(apartments)
    /\ \A a \in Range(apartments) :
          \E i \in 1..Len(layout) : layout[i].table = 1 /\ layout[i].apt = a
    /\ Apt2AHasRecords = {1, 2} =>
          \A j \in 1..Len(DeferredMergeInstrs) : Emitted(DeferredMergeInstrs[j])
    /\ \E r0 \in 0..row : \A j \in 1..Len(Header2Instrs(r0)) : Emitted(Header2Instrs(r0)[j])
    /\ mgr_idx > Len(sorted_apts)
    /\ DOMAIN mgr_by_apt = Range(sorted_apts)
    /\ \A a \in DOMAIN mgr_by_apt : \A m \in mgr_by_apt[a] :
          \E g \in Groups(2, a, "mgr") : g.key[2] = m
    /\ \A c \in 1..Len(ColumnWidths) : Emitted(set_column_width(c - 1, ColumnWidths[c]))

\* C16: a run that failed (at a load, at a worksheet call of either table,
\* at the save) has not saved the output file, and the file is saved only
\* by a run that has emitted every instruction of both tables.
C16_AllOrNothing ==
    /\ pc = "failed" => ~saved
    /\ saved => pc = "done" /\ AllEmitted

\* A run failed after it had emitted table 1 and a part of table 2: nothing
\* is saved.
C16_Witness ==
    /\ pc = "failed"
    /\ ~saved
    /\ \E i \in 1..Len(layout) : layout[i].table = 2
    /\ mgr_idx <= Len(sorted_apts)

(***************************************************************************)
(* C17: the order of the groups of a block of the DepartmentTable          *)
(***************************************************************************)
\* The label of column 1 is emitted at the first row of the group.
LabelAt(g, text) ==
    \E i \in 1..Len(sheet) :
        /\ sheet[i].op \in {"write_string", "merge_range"}
        /\ sheet[i].col = 1 /\ sheet[i].row = g.first /\ sheet[i].text = text

\* C17: in each apartment block of the DepartmentTable the department
\* groups have distinct keys and lie in strictly ascending
\* (grade, department code) order, every classroom group lies below all
\* department groups of the block, and the classroom groups lie in
\* ascending class-number order; each group that carries its own label
\* shows it at its first row.
C17_GroupOrder ==
    \A apt \in Apartments :
        /\ InKeyOrder(apt)
        /\ \A g, h \in Groups(1, apt, "dept") :
              g # h => g.key # h.key /\ (g.last < h.first \/ h.last < g.first)
        /\ \A g \in Groups(1, apt, "dept") :
              /\ g.labelled => LabelAt(g, DeptDisplay(g.key))
              /\ \A c \in Groups(1, apt, "class") : g.last < c.first
        /\ \A c, d \in Groups(1, apt, "class") :
              /\ LabelAt(c, to_string(c.key[1]) \o "class")
              /\ c # d => c.key # d.key
              /\ c.key[1] < d.key[1] => c.last < d.first

\* A block with at least three department groups and two classroom groups.
C17_Witness ==
    /\ pc = "done"
    /\ \E apt \in Apartments :
          /\ Cardinality(Groups(1, apt, "dept")) >= 3
          /\ Cardinality(Groups(1, apt, "class")) = 2

(***************************************************************************)
(* C18: the dorm rows of a group                                           *)
(***************************************************************************)
\* The column of the dorm cell in each table.
DormCol(g) == IF g.table = 1 THEN 4 ELSE 2

\* The dorm cells written on row r of column c.
DormCellsAt(r, c) ==
    {i \in 1..Len(sheet) :
        sheet[i].op = "write_string" /\ sheet[i].col = c /\ sheet[i].row = r}

\* How often record x occurs in the sequence rs.
Occurrences(rs, x) == Cardinality({j \in 1..Len(rs) : rs[j] = x})

\* C18: every rendered group with records (department, classroom, manager)
\* has one row per member record on consecutive row indices from its first
\* row on, each row with exactly one dorm cell, and the dorm numbers of the
\* rows do not decrease downwards.
C18_DormRowsSorted ==
    \A m \in 1..Len(layout) :
        LET g == layout[m]
            n == Len(Members(g))
        IN ~g.placeholder =>
              /\ n >= 1 /\ g.last = g.first + n - 1
              /\ Len(g.recs) = n
              /\ \A x \in Range(Members(g)) :
                    Occurrences(g.recs, x) = Occurrences(Members(g), x)
              /\ \A j \in 1..n :
                    /\ Cardinality(DormCellsAt(g.first + j - 1, DormCol(g))) = 1
                    /\ Emitted(write_string(g.first + j - 1, DormCol(g),
                                            to_string(g.recs[j].dorm) \o "dorm"))
              /\ \A j \in 1..(n - 1) : g.recs[j].dorm <= g.recs[j + 1].dorm

\* Each table holds a group of two records that the input file lists in
\* descending dorm order.
C18_Witness ==
    /\ pc = "done"
    /\ \A t \in {1, 2} :
          \E m \in 1..Len(layout) :
              /\ layout[m].table = t
              /\ Len(Members(layout[m])) = 2
              /\ Members(layout[m])[1].dorm > Members(layout[m])[2].dorm

(***************************************************************************)
(* C19: merged and directly written labels                                 *)
(***************************************************************************)
\* The label text of a rendered group.
LabelText(g) ==
    CASE g.kind = "dept" -> DeptDisplay(g.key)
      [] g.kind = "class" -> to_string(g.key[1]) \o "class"
      [] OTHER -> g.key[2]

\* The first and last column of the total cell in each table.
TotalCols(g) == IF g.table = 1 THEN <<7, 7>> ELSE <<6, 7>>

\* The merges among the instructions that lie within the rows r0..r1 of
\* column c.
MergesWithin(r0, r1, c) == {i \in Within(r0, r1, c) : sheet[i].op = "merge_range"}

\* The rendered groups of the block of apt in table t.
BlockGroups(t, apt) ==
    {layout[i] : i \in {j \in 1..Len(layout) :
        layout[j].table = t /\ layout[j].apt = apt}}

\* The instructions that put the label of apt into column 0.
AptLabels(apt) ==
    {i \in 1..Len(sheet) :
        sheet[i].op \in CellOps /\ sheet[i].col = 0 /\ sheet[i].text = AptName(apt)}

\* C19: a rendered group that carries its own label (every group but
\* (2, "A") when it has records in both apartments) and has more than one
\* row has exactly one instruction for its label, one for its total and one
\* for its rank within its rows, each a merge from its first to its last
\* row; a group of one row has its label and its rank written directly and
\* no merge on these two cells, and its total cell written on that row (the
\* filler in the placeholder row of a department).  The label of an
\* apartment is one merge of column 0 over the rows of the groups of its
\* block, a direct write when the block is a single row, and is not
\* emitted for an apartment without a block.
C19_LabelSpans ==
    /\ \A m \in 1..Len(layout) :
          LET g == layout[m]
              tc == TotalCols(g)
          IN g.labelled =>
                /\ \A c \in {1, tc[1], tc[2], 8} :
                      Cardinality(Within(g.first, g.last, c)) = 1
                /\ IF g.last > g.first
                   THEN /\ Emitted(merge_range(g.first, 1, g.last, 1, LabelText(g)))
                        /\ Emitted(merge_range(g.first, tc[1], g.last, tc[2],
                                               to_string(g.total)))
                        /\ Emitted(merge_range(g.first, 8, g.last, 8, to_string(g.rank)))
                   ELSE /\ Emitted(write_string(g.first, 1, LabelText(g)))
                        /\ Emitted(write_number(g.first, 8, g.rank))
                        /\ MergesWithin(g.first, g.first, 1) = {}
                        /\ MergesWithin(g.first, g.first, 8) = {}
                        /\ g.table = 1 =>
                              IF g.placeholder
                              THEN Emitted(write_string(g.first, 7, Filler))
                              ELSE Emitted(write_number(g.first, 7, g.total))
    /\ \A t \in {1, 2} : \A apt \in Apartments :
          LET gs == BlockGroups(t, apt)
          IN gs # {} =>
                LET first == CHOOSE r \in {g.first : g \in gs} :
                                 \A g \in gs : r <= g.first
                    last == CHOOSE r \in {g.last : g \in gs} : \A g \in gs : g.last <= r
                IN /\ \A r \in first..last : \E g \in gs : g.first <= r /\ r <= g.last
                   /\ Cardinality(Touching(first, last, 0)) = 1
                   /\ IF last > first
                      THEN Emitted(merge_range(first, 0, last, 0, AptName(apt)))
                      ELSE Emitted(write_string(first, 0, AptName(apt)))
    /\ \A apt \in Apartments :
          Cardinality(AptLabels(apt)) =
              Cardinality({t \in {1, 2} : BlockGroups(t, apt) # {}})

\* The report holds a group of two rows in each table, a group of one row,
\* an apartment block of a single row, and an apartment that has a block in
\* table 2 and none in table 1.
C19_Witness ==
    /\ pc = "done"
    /\ \A t \in {1, 2} :
          \E m \in 1..Len(layout) :
              layout[m].table = t /\ layout[m].labelled
              /\ layout[m].last = layout[m].first + 1
    /\ \E m \in 1..Len(layout) : layout[m].labelled /\ layout[m].last = layout[m].first
    /\ \E t \in {1, 2} : \E apt \in Apartments :
          /\ Cardinality(BlockGroups(t, apt)) = 1
          /\ \A g \in BlockGroups(t, apt) : g.last = g.first
    /\ \E apt \in Apartments : BlockGroups(1, apt) = {} /\ BlockGroups(2, apt) # {}

(***************************************************************************)
(* C20: the order of the blocks and of the two tables                      *)
(***************************************************************************)
\* The instructions that address a row of the sheet.
RowOps == CellOps \cup {"set_row_height", "insert_image"}

\* The index of the first instruction of the header of table 2 (the second
\* title merge of the sheet), 0 while table 2 has not begun.
Table2Start ==
    LET titles == {i \in 1..Len(sheet) :
                      sheet[i].op = "merge_range" /\ sheet[i].text = "title"}
    IN IF Cardinality(titles) < 2 THEN 0
       ELSE CHOOSE i \in titles : \A j \in titles : j <= i

\* C20: the apartment blocks of the DepartmentTable lie in descending
\* apartment order and those of the ManagerTable in ascending apartment
\* order, and every instruction of the ManagerTable, its header included,
\* addresses rows below every row an instruction of the DepartmentTable
\* touches, the deferred merge included.
C20_TableOrder ==
    /\ \A g, h \in Range(layout) :
          /\ (g.table = 1 /\ h.table = 1 /\ g.apt > h.apt) => g.last < h.first
          /\ (g.table = 2 /\ h.table = 2 /\ g.apt < h.apt) => g.last < h.first
          /\ (g.table = 1 /\ h.table = 2) => g.last < h.first
    /\ \A m \in 1..Len(layout) :
          layout[m].table = 2 => Table2Start > 0
    /\ Table2Start > 0 =>
          LET top == sheet[Table2Start].row
          IN /\ \A i \in 1..(Table2Start - 1) :
                   sheet[i].op \in RowOps => sheet[i].last_row < top
             /\ \A j \in Table2Start..Len(sheet) :
                   sheet[j].op \in RowOps => top <= sheet[j].row

\* Both tables hold a block for each of the two apartments and the deferred
\* merge of (2, "A") has been emitted.
C20_Witness ==
    /\ pc = "done"
    /\ \A t \in {1, 2} : \A apt \in Apartments : BlockGroups(t, apt) # {}
    /\ DeferredMergeInstrs # <<>>
    /\ Emitted(DeferredMergeInstrs[1])

(***************************************************************************)
(* C21: rank 1                                                             *)
(***************************************************************************)
\* TR is the set of <<total, rank>> pairs of a ranking scope: a total of 0
\* has rank 1, and a negative total has rank 1 only when no total of the
\* scope is greater (in particular none is 0).
ZeroRanksFirst(TR) ==
    \A p \in TR :
        /\ p[1] = 0 => p[2] = 1
        /\ (p[1] < 0 /\ p[2] = 1) => \A q \in TR : q[1] <= p[1] /\ q[1] # 0

\* C21: in the global department ranking, in each block's classroom ranking
\* and in each apartment's manager ranking a group with total 0 has rank 1
\* and a group with records has rank 1 only when no group of the scope has
\* total 0 or a greater total; the placeholder row of a department without
\* records in any apartment and of a manager without records in its
\* apartment shows rank 1.
C21_ZeroTotalRanksFirst ==
    /\ Ranked =>
          /\ ZeroRanksFirst(GlobalScope)
          /\ \A k \in DOMAIN jibu_map :
                KeyRecords(k) = <<>> => global_dept_rank_map[k] = 1
    /\ \A apt \in Apartments :
          /\ ZeroRanksFirst(ClassScope(apt))
          /\ ZeroRanksFirst(MgrScope(apt))
    /\ \A m \in 1..Len(layout) :
          (layout[m].placeholder
              /\ (layout[m].kind = "dept" => KeyRecords(layout[m].key) = <<>>)) =>
              /\ layout[m].rank = 1
              /\ Emitted(write_number(layout[m].first, 8, 1))

\* The report holds a department and a manager without records (rank 1)
\* next to ones with records (rank 2), and a manager scope in which the
\* best total is negative, so that a manager with records has rank 1.
C21_Witness ==
    /\ pc = "done"
    /\ \E p, q \in GlobalScope : p[1] = 0 /\ q[1] < 0 /\ q[2] = 2
    /\ \E apt \in Apartments :
          \E p, q \in MgrScope(apt) : p[1] = 0 /\ q[1] < 0 /\ q[2] = 2
    /\ \E apt \in Apartments :
          \E p \in MgrScope(apt) : p[1] < 0 /\ p[2] = 1

(***************************************************************************)
(* C22: the rows of the deferred merge                                     *)
(***************************************************************************)
\* The merge instructions of the sheet.
Merges == {i \in 1..Len(sheet) : sheet[i].op = "merge_range"}

\* The merges i and j have a cell in common.
ShareCell(i, j) ==
    /\ sheet[i].row <= sheet[j].last_row /\ sheet[j].row <= sheet[i].last_row
    /\ sheet[i].col <= sheet[j].last_col /\ sheet[j].col <= sheet[i].last_col

\* C22: when (2, "A") has records in both apartments, every group of the
\* DepartmentTable with a row in the span start..end of the deferred merge
\* is a group of (2, "A"), the deferred merges are the only instructions on
\* columns 1, 7, 8 of these rows, and no two merges of the run share a cell.
C22_DeferredSpanAdjacent ==
    /\ (Table1Done /\ apt2a_in_both) =>
          LET start == apt2a_start_row[1]
              end == apt2a_end_row[1]
          IN /\ \A m \in 1..Len(layout) :
                   (layout[m].table = 1
                        /\ layout[m].first <= end /\ start <= layout[m].last) =>
                       layout[m].kind = "dept" /\ layout[m].key = Key2A
             /\ \A c \in {1, 7, 8} : Cardinality(Touching(start, end, c)) = 1
    /\ \A i, j \in Merges : i # j => ~ShareCell(i, j)

(***************************************************************************)
(* C23: a department key and the blocks                                    *)
(***************************************************************************)
\* The apartments whose block renders the department key k.
BlocksOf(k) == {g.apt : g \in DeptGroupsOf(k)}

\* C23: every department key other than (2, "A") is rendered in at most
\* one apartment block of the DepartmentTable.
C23_OneBlockPerKey ==
    \A k \in AllDeptKeys : k # Key2A => Cardinality(BlocksOf(k)) <= 1

(***************************************************************************)
(* C24: record conservation                                                *)
(***************************************************************************)
\* The group of table t a record belongs to.
HomeGroups(t, x) ==
    {layout[i] : i \in {j \in 1..Len(layout) :
        /\ layout[j].table = t /\ layout[j].apt = x.apartment
        /\ IF t = 2 THEN layout[j].key = <<0, x.manager>>
           ELSE IF x.dept # "" THEN layout[j].kind = "dept" /\ layout[j].key = DeptKey(x)
           ELSE layout[j].kind = "class" /\ layout[j].key = <<x.class, "">>}}

TableGroups(t) == {layout[i] : i \in {j \in 1..Len(layout) : layout[j].table = t}}

TableRows(t) == UNION {g.first..g.last : g \in TableGroups(t)}

\* The texts of the dorm cells of the records.
DormTexts == {to_string(r.dorm) \o "dorm" : r \in Range(processed_data)}

\* The dorm cells of table t in the sheet.
DormCellsOf(t) ==
    LET t2 == Table2Start
        texts == DormTexts
        among == IF t = 1 THEN (IF t2 = 0 THEN 1..Len(sheet) ELSE 1..(t2 - 1))
                 ELSE (IF t2 = 0 THEN {} ELSE t2..Len(sheet))
    IN {i \in among :
           /\ sheet[i].op = "write_string"
           /\ sheet[i].col = (IF t = 1 THEN 4 ELSE 2)
           /\ sheet[i].text \in texts}

\* Table t is complete.
TableDone(t) == IF t = 1 THEN Table1Done ELSE pc = "done"

\* C24: in each complete table every ProcessedRecord has its dorm rows, as
\* many as the input lists it, in exactly one group: in the DepartmentTable
\* the (grade, department) group of its apartment's block when its
\* department is not empty and the classroom group of its class otherwise,
\* in the ManagerTable the group of its manager in its apartment's block,
\* and in no other group; the rows of the groups are pairwise disjoint, the
\* table has one row per record and one per placeholder, and one dorm cell
\* per record.
C24_RecordConservation ==
    \A t \in {1, 2} :
        TableDone(t) =>
            /\ \A x \in Range(processed_data) :
                  /\ Cardinality(HomeGroups(t, x)) = 1
                  /\ \A g \in HomeGroups(t, x) :
                        Occurrences(g.recs, x) = Occurrences(processed_data, x)
                  /\ \A g \in TableGroups(t) :
                        x \in Range(g.recs) => g \in HomeGroups(t, x)
            /\ \A g, h \in TableGroups(t) :
                  g # h => g.last < h.first \/ h.last < g.first
            /\ \A g \in TableGroups(t) :
                  g.last - g.first + 1 = IF g.placeholder THEN 1 ELSE Len(g.recs)
            /\ Cardinality(TableRows(t)) =
                  Len(processed_data)
                  + Cardinality({g \in TableGroups(t) : g.placeholder})
            /\ Cardinality(DormCellsOf(t)) = Len(processed_data)
            /\ \A i \in DormCellsOf(t) : sheet[i].row \in TableRows(t)

\* The input lists the same record twice, and both tables also hold
\* placeholder rows.
C24_Witness ==
    /\ pc = "done"
    /\ Len(processed_data) = 2
    /\ processed_data[1] = processed_data[2]
    /\ processed_data[1].dept # ""
    /\ \A t \in {1, 2} : \E g \in TableGroups(t) : g.placeholder

(***************************************************************************)
(* C25: the lookups of the table builders                                  *)
(***************************************************************************)
\* The keys a rank map built over the keys S has, whatever the iteration
\* order of the container was (Totals(order) is the sorted Vec).
AlwaysRanks(S, Totals(_)) ==
    \A order \in IterationOrders(S) : DOMAIN RankMap(Totals(order)) = S

\* C25: whenever a table builder is about to look a key up, the key is
\* there.  Before an apartment block of the DepartmentTable every key of the
\* block's dept_groups (roster keys and keys of the records alike) has a
\* global rank and every key of class_groups has a classroom rank; before
\* the deferred merge (2, "A") has a global rank, in the roster or not;
\* before an apartment block of the ManagerTable the apartment has its
\* manager set and every manager of it has a rank; and every rendered
\* group carries a rank of at least 1.
C25_LookupsFound ==
    /\ (pc = "dept" /\ apt_idx <= Len(apartments)) =>
          LET apt == apartments[apt_idx]
              class_groups == ClassGroups(apt)
          IN /\ DOMAIN DeptGroups(apt) \subseteq DOMAIN global_dept_rank_map
             /\ DOMAIN DeptGroups(apt) \subseteq DOMAIN all_dept_groups
             /\ AlwaysRanks(DOMAIN class_groups,
                            LAMBDA order : ClassTotals(class_groups, order))
    /\ (pc = "dept" /\ apt_idx > Len(apartments) /\ apt2a_in_both) =>
          /\ apt2a_start_row # <<>> /\ apt2a_end_row # <<>>
          /\ Key2A \in DOMAIN global_dept_rank_map
    /\ (pc = "mgr" /\ mgr_idx <= Len(sorted_apts)) =>
          LET apt == sorted_apts[mgr_idx]
          IN /\ apt \in DOMAIN mgr_by_apt
             /\ AlwaysRanks(mgr_by_apt[apt], LAMBDA order : MgrTotals(apt, order))
    /\ \A m \in 1..Len(layout) : layout[m].rank >= 1

\* The roster does not list (2, "A") nor any other department, (2, "A") has
\* records in both apartments, and the blocks and the deferred merge have
\* been emitted with its global rank.
C25_Witness ==
    /\ pc = "done"
    /\ Key2A \notin DOMAIN jibu_map
    /\ apt2a_in_both
    /\ Cardinality(DeptGroupsOf(Key2A)) = 2
    /\ DeferredMergeOf(8, to_string(global_dept_rank_map[Key2A]))

(***************************************************************************)
(* C26: the ranking of the stand-alone variant                             *)
(***************************************************************************)
\* The keys of the ranking scope of a rendered group with their totals,
\* taken from the enriched records: the (grade, dept) keys of the records
\* of the apartment in table 1, the managers of the apartment in table 2.
MainScopeTotals(g) ==
    IF g.table = 1
    THEN [k \in {DeptKey(r) : r \in Range(RecordsOf(g.apt))} |->
            SumDeduction(SelectSeq(RecordsOf(g.apt), LAMBDA r : DeptKey(r) = k))]
    ELSE [k \in {<<0, m>> : m \in mgr_by_apt[g.apt]} |->
            SumDeduction(MgrRecords(g.apt, k[2]))]

\* The rank cell of the group in the worksheet: a number cell at its first
\* row, or a merged cell over its rows holding the number as text.
RankCellShows(g) ==
    \E i \in 1..Len(sheet) :
        /\ sheet[i].row = g.first /\ sheet[i].col = 8
        /\ \/ sheet[i].op = "write_number" /\ sheet[i].num = g.rank
           \/ /\ sheet[i].op = "merge_range" /\ sheet[i].last_row = g.last
              /\ sheet[i].text = to_string(g.rank)

\* Every key of the scope of the block has one rendered group.
MainScopeRendered(g) ==
    \A k \in DOMAIN MainScopeTotals(g) :
        \E m \in 1..Len(layout) :
            layout[m].table = g.table /\ layout[m].apt = g.apt /\ layout[m].key = k

\* C26: in the stand-alone variant main.rs, for the department ranking and
\* the manager ranking of each apartment, the rank of a key is 1 plus the
\* number of keys of the same scope with a strictly greater total (skip
\* ranking: tied keys share a rank, and the next distinct total's rank is
\* advanced by the size of the tied group), and that rank is what the rank
\* cell of the group shows.
C26_SkipRanking ==
    \A m \in 1..Len(layout) :
        LET g == layout[m]
            totals == MainScopeTotals(g)
        IN /\ g.key \in DOMAIN totals
           /\ g.total = totals[g.key]
           /\ g.rank = 1 + Cardinality({k \in DOMAIN totals : totals[k] > totals[g.key]})
           /\ RankCellShows(g)
           /\ MainScopeRendered(g)

\* A finished run in which table 1 has department totals -1, -1, -2 ranked
\* 1, 1, 3 and table 2 has manager totals 0, 0, -4 ranked 1, 1, 3, both in
\* apartment 1.
C26_Witness ==
    /\ pc = "done"
    /\ LET D == {layout[m] : m \in {j \in 1..Len(layout) :
                                       layout[j].table = 1 /\ layout[j].apt = 1}}
           M == {layout[m] : m \in {j \in 1..Len(layout) :
                                       layout[j].table = 2 /\ layout[j].apt = 1}}
       IN /\ {<<g.total, g.rank>> : g \in D} = {<<-1, 1>>, <<-2, 3>>}
          /\ Cardinality(D) = 3
          /\ {<<g.total, g.rank>> : g \in M} = {<<0, 1>>, <<-4, 3>>}
          /\ Cardinality(M) = 3

====
